---- MODULE Spec2Model ----
(***************************************************************************)
(* State-machine model of GrContext (src/src/gpu/GrContext.cpp): the       *)
(* scratch-texture allocator over the resource cache, and the deferred     *)
(* draw buffer with its flush rules.                                       *)
(***************************************************************************)
EXTENDS Integers, Sequences, FiniteSets, TLC

(***************************************************************************)
(* Bounds of the model.                                                    *)
(***************************************************************************)
MaxTex == 2          \* texture objects alive at once
MaxCmds == 2         \* commands a draw buffer can hold
MaxLog == 3          \* most recent device commands the device log keeps
MaxBufs == 2         \* draw buffers ever constructed
MaxReenter == 1      \* flush requests the device makes during one replay
MaxLocks == 2        \* locks held on one texture at once
MaxRenderers == 3    \* software path renderers ever constructed

(***************************************************************************)
(* Program constants.                                                      *)
(***************************************************************************)
MIN_SIZE == 256
MAX_TEXTURE_CACHE_COUNT == 256
MAX_TEXTURE_CACHE_BYTES == 16777216
BytesPerPixel == 4

NULL == 0
TexIds == 1..MaxTex

kExact_ScratchTexMatch == "kExact"
kApprox_ScratchTexMatch == "kApprox"
ScratchTexMatch == {kExact_ScratchTexMatch, kApprox_ScratchTexMatch}

(***************************************************************************)
(* GrTextureDesc: width, height and the two flag bits the scratch search   *)
(* reads and writes (kRenderTarget_GrTextureFlagBit,                       *)
(* kNoStencil_GrTextureFlagBit).                                           *)
(***************************************************************************)
GrTextureDesc(w, h, rt, ns) == [fWidth |-> w, fHeight |-> h, rt |-> rt, ns |-> ns]

\* The (width, height) pairs callers request, and the flag pairs
\* <<render target, no stencil>> they request them with.
ReqDims == {<<100, 100>>, <<300, 100>>, <<100, 300>>}
ExactDims == {<<100, 100>>, <<256, 256>>}
ReqFlags == {<<FALSE, TRUE>>, <<TRUE, TRUE>>, <<TRUE, FALSE>>}
ExactFlags == {<<TRUE, FALSE>>}

\* The calls made: <<descriptor, match mode>>.
Requests ==
    {<<GrTextureDesc(d[1], d[2], f[1], f[2]), kApprox_ScratchTexMatch>> :
        d \in ReqDims, f \in ReqFlags}
    \cup {<<GrTextureDesc(d[1], d[2], f[1], f[2]), kExact_ScratchTexMatch>> :
        d \in ExactDims, f \in ExactFlags}

InDescs == {r[1] : r \in Requests}

NoDesc == GrTextureDesc(0, 0, FALSE, FALSE)

\* Limits a client passes to setTextureCacheLimits: <<maxTextures, maxTextureBytes>>.
LimitChoices ==
    {<<MAX_TEXTURE_CACHE_COUNT, MAX_TEXTURE_CACHE_BYTES>>,
     <<1, MAX_TEXTURE_CACHE_BYTES>>,
     <<MAX_TEXTURE_CACHE_COUNT, 512 * 256 * BytesPerPixel>>}

\* The descriptors of the textures clients create with content of their own.
TexDescs == {GrTextureDesc(256, 256, FALSE, FALSE), GrTextureDesc(512, 256, FALSE, FALSE)}

RECURSIVE Pow2AtLeast(_, _)
Pow2AtLeast(n, p) == IF p >= n THEN p ELSE Pow2AtLeast(n, 2 * p)

\* The smallest power of two that is >= n.
GrNextPow2(n) == Pow2AtLeast(n, 1)

GrMax(a, b) == IF a < b THEN b ELSE a

(***************************************************************************)
(* GrTexture::ComputeKey: the key is decided by the descriptor and by the  *)
(* scratch/permanent discriminator.                                        *)
(***************************************************************************)
\* A key without the discriminator.
ComputeKey_DescOnly(desc, scratch) == [desc |-> desc, scratch |-> FALSE]

ComputeKey(desc, scratch) == [desc |-> desc, scratch |-> scratch]

IsScratchTexture(key) == key.scratch

NoKey == ComputeKey(NoDesc, FALSE)

NoTex == [state |-> "None", key |-> NoKey, desc |-> NoDesc, locks |-> 0]

sizeInBytes(desc) == desc.fWidth * desc.fHeight * BytesPerPixel

VARIABLES
    tex,                  \* TexIds -> the texture object and its cache entry
    lru,                  \* the cache's list of attached entries, most recent first
    fMaxCount, fMaxBytes, \* the cache's limits
    lastCall,             \* the last public call on the cache: arguments, probes, result
    fDrawBuffer,          \* the context's draw-buffer reference, NULL or a buffer id
    bufCmds,              \* the commands recorded in the live draw buffer
    liveBuf,              \* the id of the draw buffer object that exists, or NULL
    fLastDrawWasBuffered, \* TRUE for kYes_BufferedDraw
    devLog,               \* the commands the device has executed, in order
    flushStack,           \* the flushDrawBuffer calls in progress, innermost last
    lastDraw,             \* the current or last public draw/flush call and what it observed
    pixelOp,              \* the current or last pixel read/write call and what it observed
    fDrawState,           \* the context's draw state
    lastGfx,              \* the last call that works on the draw state and what it observed
    lossSteps,            \* the steps of the last contextLost, in order
    pathR,                \* the path renderers the context holds, and the last lookup
    lastRead,             \* the last readRenderTargetPixels call seen by its route
    fault,                \* the member call made through a NULL fDrawBuffer, if any
    lastResize,           \* the last createAndLockTexture call that resized, and its route
    lastBlur,             \* the passes and clears of the last gaussianBlur or applyMorphology
    pixelNest,            \* a pixel operation as a function: its nesting and its calls
    lastTeardown          \* the last freeGpuResources or destructor, and what its steps met

cacheVars == <<tex, lru, fMaxCount, fMaxBytes, lastCall>>
drawVars == <<fDrawBuffer, bufCmds, liveBuf, fLastDrawWasBuffered, devLog, flushStack,
              lastDraw>>
pixelVars == <<pixelOp>>
\* What the cache operations and the drawing calls leave alone.
gfxVars == <<fDrawState, lastGfx>>
lossVars == <<lossSteps>>
pathVars == <<pathR>>
readVars == <<lastRead>>
faultVars == <<fault>>
extraVars == <<lastResize, lastBlur, pixelNest, lastTeardown>>
auxVars == <<pixelOp, fDrawState, lastGfx, lossSteps, pathR, lastRead, fault, extraVars>>
vars == <<tex, lru, fMaxCount, fMaxBytes, lastCall, fDrawBuffer, bufCmds, liveBuf,
          fLastDrawWasBuffered, devLog, flushStack, lastDraw, pixelOp, fDrawState, lastGfx,
          lossSteps, pathR, lastRead, fault, extraVars>>

(***************************************************************************)
(* The resource cache.  A cache value is [tex, lru].                       *)
(***************************************************************************)
RECURSIVE SeqRemove(_, _)
SeqRemove(s, x) ==
    IF s = <<>> THEN <<>>
    ELSE IF Head(s) = x THEN SeqRemove(Tail(s), x)
    ELSE <<Head(s)>> \o SeqRemove(Tail(s), x)

Attached(c) == {t \in TexIds : c.tex[t].state = "Attached"}

\* Every resource the cache still accounts for.
Resident(c) == {t \in TexIds : c.tex[t].state = "Attached"}

RECURSIVE SumBytes(_, _)
SumBytes(c, S) ==
    IF S = {} THEN 0
    ELSE LET t == CHOOSE x \in S : TRUE
         IN sizeInBytes(c.tex[t].desc) + SumBytes(c, S \ {t})

getCachedResourceBytes(c) == SumBytes(c, Resident(c))

WithinBudget(c, maxCount, maxBytes) ==
    /\ Cardinality(Resident(c)) <= maxCount
    /\ getCachedResourceBytes(c) <= maxBytes

\* Entries with the key that a lookup can return.
Matches(c, key) == {t \in Attached(c) : c.tex[t].key = key}

\* Whether an entry is locked; a locked entry is passed over by the purge.
isLocked_Never(c, t) == FALSE

isLocked(c, t) == c.tex[t].locks > 0

\* No eviction at all.
purgeAsNeeded_Never(c, maxCount, maxBytes) == c

\* Evict unlocked entries from the tail of the list until within budget.
RECURSIVE PurgeFrom(_, _, _, _)
PurgeFrom(c, i, maxCount, maxBytes) ==
    IF i = 0 \/ WithinBudget(c, maxCount, maxBytes) THEN c
    ELSE LET t == c.lru[i]
         IN IF isLocked(c, t)
            THEN PurgeFrom(c, i - 1, maxCount, maxBytes)
            ELSE PurgeFrom([tex |-> [c.tex EXCEPT ![t] = NoTex],
                            lru |-> SeqRemove(c.lru, t)],
                           i - 1, maxCount, maxBytes)

purgeAsNeeded(c, maxCount, maxBytes) == PurgeFrom(c, Len(c.lru), maxCount, maxBytes)

\* findAndLock on the entry t the lookup found: one more lock, most recent.
findAndLock(c, t) ==
    [tex |-> [c.tex EXCEPT ![t].locks = @ + 1],
     lru |-> <<t>> \o SeqRemove(c.lru, t)]

\* createAndLock: a new entry in slot t, locked once, then budget enforcement.
createAndLock(c, key, desc, t, maxCount, maxBytes) ==
    purgeAsNeeded([tex |-> [c.tex EXCEPT ![t] =
                               [state |-> "Attached", key |-> key, desc |-> desc, locks |-> 1]],
                   lru |-> <<t>> \o c.lru],
                  maxCount, maxBytes)

\* detach: out of the lookup structure; not destroyed, lock count untouched.
detach(c, t) ==
    [tex |-> [c.tex EXCEPT ![t].state = "Detached"],
     lru |-> SeqRemove(c.lru, t)]

unlock(c, t) == [c EXCEPT !.tex[t].locks = @ - 1]

\* reattachAndUnlock: back into the lookup structure, then unlock.
reattachAndUnlock(c, t) ==
    unlock([tex |-> [c.tex EXCEPT ![t].state = "Attached"],
            lru |-> <<t>> \o SeqRemove(c.lru, t)], t)

(***************************************************************************)
(* GrContext::lockScratchTexture.                                          *)
(***************************************************************************)
\* The descriptor of the first lookup: binned by pow2 with a minimum unless Exact.
BinDesc_NoMin(inDesc, match) ==
    IF match # kExact_ScratchTexMatch
    THEN [inDesc EXCEPT !.fWidth = GrNextPow2(inDesc.fWidth),
                        !.fHeight = GrNextPow2(inDesc.fHeight)]
    ELSE inDesc

BinDesc(inDesc, match) ==
    IF match # kExact_ScratchTexMatch
    THEN [inDesc EXCEPT !.fWidth = GrMax(MIN_SIZE, GrNextPow2(inDesc.fWidth)),
                        !.fHeight = GrMax(MIN_SIZE, GrNextPow2(inDesc.fHeight))]
    ELSE inDesc

\* One pass through the if/else chain that relaxes the descriptor after a miss.
RelaxDesc_StencilFirst(desc, inDesc, origWidth, doubledW, doubledH) ==
    IF desc.ns
    THEN [desc |-> [desc EXCEPT !.ns = FALSE],
          doubledW |-> doubledW, doubledH |-> doubledH, stop |-> FALSE]
    ELSE IF ~desc.rt
    THEN [desc |-> [desc EXCEPT !.rt = TRUE],
          doubledW |-> doubledW, doubledH |-> doubledH, stop |-> FALSE]
    ELSE IF ~doubledW
    THEN [desc |-> [desc EXCEPT !.rt = inDesc.rt, !.ns = inDesc.ns,
                                !.fWidth = desc.fWidth * 2],
          doubledW |-> TRUE, doubledH |-> doubledH, stop |-> FALSE]
    ELSE IF ~doubledH
    THEN [desc |-> [desc EXCEPT !.rt = inDesc.rt, !.ns = inDesc.ns,
                                !.fWidth = origWidth,
                                !.fHeight = desc.fHeight * 2],
          doubledW |-> doubledW, doubledH |-> TRUE, stop |-> FALSE]
    ELSE [desc |-> desc, doubledW |-> doubledW, doubledH |-> doubledH, stop |-> TRUE]

\* A chain that doubles without resetting the flags or the width.
RelaxDesc_NoReset(desc, inDesc, origWidth, doubledW, doubledH) ==
    IF ~desc.rt
    THEN [desc |-> [desc EXCEPT !.rt = TRUE],
          doubledW |-> doubledW, doubledH |-> doubledH, stop |-> FALSE]
    ELSE IF desc.ns
    THEN [desc |-> [desc EXCEPT !.ns = FALSE],
          doubledW |-> doubledW, doubledH |-> doubledH, stop |-> FALSE]
    ELSE IF ~doubledW
    THEN [desc |-> [desc EXCEPT !.fWidth = desc.fWidth * 2],
          doubledW |-> TRUE, doubledH |-> doubledH, stop |-> FALSE]
    ELSE IF ~doubledH
    THEN [desc |-> [desc EXCEPT !.fHeight = desc.fHeight * 2],
          doubledW |-> doubledW, doubledH |-> TRUE, stop |-> FALSE]
    ELSE [desc |-> desc, doubledW |-> doubledW, doubledH |-> doubledH, stop |-> TRUE]

\* A chain that doubles the width a second time before it turns to the height.
RelaxDesc_WidthTwice(desc, inDesc, origWidth, doubledW, doubledH) ==
    IF ~desc.rt
    THEN [desc |-> [desc EXCEPT !.rt = TRUE],
          doubledW |-> doubledW, doubledH |-> doubledH, stop |-> FALSE]
    ELSE IF desc.ns
    THEN [desc |-> [desc EXCEPT !.ns = FALSE],
          doubledW |-> doubledW, doubledH |-> doubledH, stop |-> FALSE]
    ELSE IF ~doubledH /\ desc.fWidth < 4 * origWidth
    THEN [desc |-> [desc EXCEPT !.rt = inDesc.rt, !.ns = inDesc.ns,
                                !.fWidth = desc.fWidth * 2],
          doubledW |-> TRUE, doubledH |-> doubledH, stop |-> FALSE]
    ELSE IF ~doubledH
    THEN [desc |-> [desc EXCEPT !.rt = inDesc.rt, !.ns = inDesc.ns,
                                !.fWidth = origWidth,
                                !.fHeight = desc.fHeight * 2],
          doubledW |-> doubledW, doubledH |-> TRUE, stop |-> FALSE]
    ELSE [desc |-> desc, doubledW |-> doubledW, doubledH |-> doubledH, stop |-> TRUE]

\* A chain that clears the flags where the code resets them to the caller's.
RelaxDesc_ClearFlags(desc, inDesc, origWidth, doubledW, doubledH) ==
    IF ~desc.rt
    THEN [desc |-> [desc EXCEPT !.rt = TRUE],
          doubledW |-> doubledW, doubledH |-> doubledH, stop |-> FALSE]
    ELSE IF desc.ns
    THEN [desc |-> [desc EXCEPT !.ns = FALSE],
          doubledW |-> doubledW, doubledH |-> doubledH, stop |-> FALSE]
    ELSE IF ~doubledW
    THEN [desc |-> [desc EXCEPT !.rt = FALSE, !.ns = FALSE,
                                !.fWidth = desc.fWidth * 2],
          doubledW |-> TRUE, doubledH |-> doubledH, stop |-> FALSE]
    ELSE IF ~doubledH
    THEN [desc |-> [desc EXCEPT !.rt = FALSE, !.ns = FALSE,
                                !.fWidth = origWidth,
                                !.fHeight = desc.fHeight * 2],
          doubledW |-> doubledW, doubledH |-> TRUE, stop |-> FALSE]
    ELSE [desc |-> desc, doubledW |-> doubledW, doubledH |-> doubledH, stop |-> TRUE]

RelaxDesc(desc, inDesc, origWidth, doubledW, doubledH) ==
    IF ~desc.rt
    THEN [desc |-> [desc EXCEPT !.rt = TRUE],
          doubledW |-> doubledW, doubledH |-> doubledH, stop |-> FALSE]
    ELSE IF desc.ns
    THEN [desc |-> [desc EXCEPT !.ns = FALSE],
          doubledW |-> doubledW, doubledH |-> doubledH, stop |-> FALSE]
    ELSE IF ~doubledW
    THEN [desc |-> [desc EXCEPT !.rt = inDesc.rt, !.ns = inDesc.ns,
                                !.fWidth = desc.fWidth * 2],
          doubledW |-> TRUE, doubledH |-> doubledH, stop |-> FALSE]
    ELSE IF ~doubledH
    THEN [desc |-> [desc EXCEPT !.rt = inDesc.rt, !.ns = inDesc.ns,
                                !.fWidth = origWidth,
                                !.fHeight = desc.fHeight * 2],
          doubledW |-> doubledW, doubledH |-> TRUE, stop |-> FALSE]
    ELSE [desc |-> desc, doubledW |-> doubledW, doubledH |-> doubledH, stop |-> TRUE]

\* Whether the lookup of a scratch key finds an entry.
ScratchHit(c, desc) == Matches(c, ComputeKey(desc, TRUE)) # {}

\* The do/while loop: the descriptors probed, in order, and whether the last one hit.
RECURSIVE ScratchSearch_RelaxExact(_, _, _, _, _, _, _, _)
ScratchSearch_RelaxExact(c, desc, inDesc, match, origWidth, doubledW, doubledH, probes) ==
    LET probed == Append(probes, desc)
    IN IF ScratchHit(c, desc)
       THEN [probes |-> probed, hit |-> TRUE, desc |-> desc]
       ELSE LET nx == RelaxDesc(desc, inDesc, origWidth, doubledW, doubledH)
            IN IF nx.stop
               THEN [probes |-> probed, hit |-> FALSE, desc |-> desc]
               ELSE ScratchSearch_RelaxExact(c, nx.desc, inDesc, match, origWidth,
                                             nx.doubledW, nx.doubledH, probed)

RECURSIVE ScratchSearch(_, _, _, _, _, _, _, _)
ScratchSearch(c, desc, inDesc, match, origWidth, doubledW, doubledH, probes) ==
    LET probed == Append(probes, desc)
    IN IF ScratchHit(c, desc) \/ match = kExact_ScratchTexMatch
       THEN [probes |-> probed, hit |-> ScratchHit(c, desc), desc |-> desc]
       ELSE LET nx == RelaxDesc(desc, inDesc, origWidth, doubledW, doubledH)
            IN IF nx.stop
               THEN [probes |-> probed, hit |-> FALSE, desc |-> desc]
               ELSE ScratchSearch(c, nx.desc, inDesc, match, origWidth,
                                  nx.doubledW, nx.doubledH, probed)

\* The descriptor handed to the device after every lookup missed.
AllocDesc_Relaxed(desc, inDesc, origWidth, origHeight) == desc

AllocDesc(desc, inDesc, origWidth, origHeight) ==
    [desc EXCEPT !.rt = inDesc.rt, !.ns = inDesc.ns,
                 !.fWidth = origWidth, !.fHeight = origHeight]

\* The returned resource is detached from the cache.
DetachResult_Skip(c, resource) == c

DetachResult(c, resource) == IF resource # NULL THEN detach(c, resource) ELSE c

FreeSlots == {t \in TexIds : tex[t].state = "None"}

\* The least free slot of a cache value, or NULL: the texture the device creates.
DeviceCreate(c) ==
    IF \E t \in TexIds : c.tex[t].state = "None"
    THEN CHOOSE t \in TexIds :
            c.tex[t].state = "None" /\ \A u \in TexIds : c.tex[u].state = "None" => t <= u
    ELSE NULL

\* The cache makes room whether or not there is a texture to take in.
RegisterCreated_PurgeAnyway(c, key, desc, t, maxCount, maxBytes) ==
    IF t # NULL THEN createAndLock(c, key, desc, t, maxCount, maxBytes)
    ELSE purgeAsNeeded(c, 0, 0)

\* if (NULL != texture) { fTextureCache->createAndLock(key, texture); }
RegisterCreated(c, key, desc, t, maxCount, maxBytes) ==
    IF t # NULL THEN createAndLock(c, key, desc, t, maxCount, maxBytes) ELSE c

Call(op, inDesc, match, probes, created, result) ==
    [op |-> op, inDesc |-> inDesc, match |-> match, probes |-> probes,
     created |-> created, result |-> result]

NoCall == Call("none", NoDesc, kExact_ScratchTexMatch, <<>>, <<>>, NULL)

\* The device's createTexture succeeds while it has room for one more texture
\* object and returns NULL once MaxTex of them are alive.
LockScratchTexture(inDesc, match) ==
    \E c0 \in {[tex |-> tex, lru |-> lru]}, bin \in {BinDesc(inDesc, match)} :
    \E s \in {ScratchSearch(c0, bin, inDesc, match, bin.fWidth, FALSE, FALSE, <<>>)} :
    \E ad \in {AllocDesc(s.desc, inDesc, bin.fWidth, bin.fHeight)} :
       /\ IF s.hit
          THEN \E r \in Matches(c0, ComputeKey(s.desc, TRUE)) :
                  \E c2 \in {DetachResult(findAndLock(c0, r), r)} :
                     /\ tex' = c2.tex
                     /\ lru' = c2.lru
                     /\ lastCall' = Call("lockScratchTexture", inDesc, match,
                                         s.probes, <<>>, r)
          ELSE \E t \in {DeviceCreate(c0)} :
                  \E c2 \in {DetachResult(RegisterCreated(c0, ComputeKey(ad, TRUE), ad, t,
                                                          fMaxCount, fMaxBytes), t)} :
                     /\ tex' = c2.tex
                     /\ lru' = c2.lru
                     /\ lastCall' = Call("lockScratchTexture", inDesc, match,
                                         s.probes, <<ad>>, t)
       /\ UNCHANGED <<fMaxCount, fMaxBytes>>
       /\ UNCHANGED drawVars
       /\ UNCHANGED auxVars
    /\ UNCHANGED auxVars

(***************************************************************************)
(* GrContext::unlockTexture, on a texture the caller holds locked.         *)
(***************************************************************************)
\* A scratch texture is reattached and unlocked, any other texture only unlocked.
ReleaseEntry_NoReattach(c, t) == unlock(c, t)

ReleaseEntry(c, t) ==
    IF IsScratchTexture(c.tex[t].key)
    THEN reattachAndUnlock(c, t)
    ELSE unlock(c, t)

UnlockTexture(t) ==
    /\ tex[t].state # "None"
    /\ tex[t].locks > 0
    /\ \E c1 \in {ReleaseEntry([tex |-> tex, lru |-> lru], t)} :
          /\ tex' = c1.tex
          /\ lru' = c1.lru
    /\ lastCall' = Call("unlockTexture", NoDesc, kExact_ScratchTexMatch, <<>>, <<>>, t)
    /\ UNCHANGED <<fMaxCount, fMaxBytes>>
    /\ UNCHANGED drawVars
    /\ UNCHANGED auxVars

(***************************************************************************)
(* GrContext::createAndLockTexture, for a key that needs no resizing: the  *)
(* device creates the texture, and the cache takes it if it is not NULL.   *)
(***************************************************************************)
CreateAndLockTexture(desc) ==
    /\ \E c0 \in {[tex |-> tex, lru |-> lru]}, resourceKey \in {ComputeKey(desc, FALSE)} :
       \E t \in {DeviceCreate(c0)} :
          \E c1 \in {RegisterCreated(c0, resourceKey, desc, t, fMaxCount, fMaxBytes)} :
             /\ tex' = c1.tex
             /\ lru' = c1.lru
             /\ lastCall' = Call("createAndLockTexture", desc, kExact_ScratchTexMatch,
                                 <<>>, <<desc>>, t)
    /\ UNCHANGED <<fMaxCount, fMaxBytes>>
    /\ UNCHANGED drawVars
    /\ UNCHANGED auxVars

(***************************************************************************)
(* GrContext::findAndLockTexture: a nested lock on an entry with the key.  *)
(***************************************************************************)
FindAndLockTexture(desc) ==
    /\ \E c0 \in {[tex |-> tex, lru |-> lru]}, resourceKey \in {ComputeKey(desc, FALSE)} :
          IF Matches(c0, resourceKey) # {}
          THEN \E r \in Matches(c0, resourceKey) :
                  /\ tex[r].locks < MaxLocks
                  /\ \E c1 \in {findAndLock(c0, r)} :
                        /\ tex' = c1.tex
                        /\ lru' = c1.lru
                  /\ lastCall' = Call("findAndLockTexture", desc, kExact_ScratchTexMatch,
                                      <<desc>>, <<>>, r)
          ELSE /\ UNCHANGED <<tex, lru>>
               /\ lastCall' = Call("findAndLockTexture", desc, kExact_ScratchTexMatch,
                                   <<desc>>, <<>>, NULL)
    /\ UNCHANGED <<fMaxCount, fMaxBytes>>
    /\ UNCHANGED drawVars
    /\ UNCHANGED auxVars

(***************************************************************************)
(* GrContext::setTextureCacheLimits.                                       *)
(***************************************************************************)
SetTextureCacheLimits(maxTextures, maxTextureBytes) ==
    /\ <<maxTextures, maxTextureBytes>> # <<fMaxCount, fMaxBytes>>
    /\ fMaxCount' = maxTextures
    /\ fMaxBytes' = maxTextureBytes
    /\ lastCall' = Call("setTextureCacheLimits", NoDesc, kExact_ScratchTexMatch, <<>>, <<>>, NULL)
    /\ UNCHANGED <<tex, lru>>
    /\ UNCHANGED drawVars
    /\ UNCHANGED auxVars

(***************************************************************************)
(* The deferred draw buffer.                                               *)
(***************************************************************************)
\* The commands a drawing call records or issues.
Cmds == {"A", "B"}

NoCmd == "none"

\* The device executes a command: the log keeps the most recent MaxLog.
DeviceExec(log, cmd) ==
    LET all == Append(log, cmd)
    IN IF Len(all) > MaxLog THEN SubSeq(all, Len(all) - MaxLog + 1, Len(all)) ELSE all

RECURSIVE ExecAll(_, _)
\* The device log after the device executed cmds, in order, from log.
ExecAll(log, cmds) ==
    IF cmds = <<>> THEN log ELSE ExecAll(DeviceExec(log, Head(cmds)), Tail(cmds))

\* A public call and what it observed: the mode requested, the value of
\* fLastDrawWasBuffered, the recorded commands and the device log when it was
\* made, the replays started since, and whether it has returned.
Draw(op, buffered, wasBuffered, cmd, pending, logBefore, flushes, done) ==
    [op |-> op, buffered |-> buffered, wasBuffered |-> wasBuffered, cmd |-> cmd,
     pending |-> pending, logBefore |-> logBefore, flushes |-> flushes, done |-> done]

NoDraw == Draw("none", FALSE, FALSE, NoCmd, <<>>, <<>>, 0, TRUE)

Frame(caller, temp, cmd, buffered) ==
    [caller |-> caller, temp |-> temp, pos |-> 1, reentered |-> 0, cmd |-> cmd,
     buffered |-> buffered]

Top == flushStack[Len(flushStack)]

\* GrContext::flushDrawBuffer, up to the call of flushTo: the value of
\* fDrawBuffer while the buffer held in temp is replayed.
DuringFlushRef_Keep(temp) == temp

DuringFlushRef(temp) == NULL

\* GrContext::flushDrawBuffer, after flushTo returned.
AfterFlushRef_Null(temp) == NULL

AfterFlushRef(temp) == temp

\* GrInOrderDrawBuffer::flushTo, one command: the command at position pos goes
\* to the device.
ReplayedCmd_Reversed(cmds, pos) == cmds[Len(cmds) + 1 - pos]

ReplayedCmd(cmds, pos) == cmds[pos]

\* Whether prepareToDraw flushes: an unbuffered request after a buffered draw.
NeedsFlush_Never(buffered, lastWasBuffered) == FALSE

NeedsFlush_Always(buffered, lastWasBuffered) == TRUE

NeedsFlush(buffered, lastWasBuffered) == ~buffered /\ lastWasBuffered

\* flushDrawBuffer starts a replay: fDrawBuffer is non-null.
StartFlush(caller, cmd, buffered) ==
    /\ flushStack' = Append(flushStack, Frame(caller, fDrawBuffer, cmd, buffered))
    /\ fDrawBuffer' = DuringFlushRef(fDrawBuffer)

(***************************************************************************)
(* The pixel operations.  A call is described by its flags                 *)
(* (kDontFlush_PixelOpsFlag, kUnpremul_PixelOpsFlag) and by what it meets: *)
(*   noTarget     no render target: NULL was passed and the draw state has *)
(*                none, or the texture read is not a render target         *)
(*   canPreserve  fGpu->canPreserveReadWriteUnpremulPixels()               *)
(*   cfgOk        grconfig_to_config8888 knows both configs                *)
(*   isTexture    target->asTexture() is not NULL                          *)
(*   conv         the device wants a y-flip or an R/B swap                 *)
(*   scratchOk    the scratch texture was obtained                         *)
(*   geoOk        the vertex space was obtained                            *)
(*   macBuild     GR_MAC_BUILD                                             *)
(* Each operator gives the calls the operation makes on the context's      *)
(* flush and on the device, in order, and the value it returns.            *)
(***************************************************************************)
PixelOpsFlags == [dontFlush : BOOLEAN, unpremul : BOOLEAN]

PixelEnvs == [noTarget : BOOLEAN, canPreserve : BOOLEAN, cfgOk : BOOLEAN,
              isTexture : BOOLEAN, conv : BOOLEAN, scratchOk : BOOLEAN,
              geoOk : BOOLEAN, macBuild : BOOLEAN]

PixelOpNames == {"writeTexturePixels", "readTexturePixels",
                 "readRenderTargetPixels", "writeRenderTargetPixels"}

Outcome(ev, ret) == [ev |-> ev, ret |-> ret]

\* if (!(kDontFlush_PixelOpsFlag & flags)) { this->flush(); }
FlushUnlessSuppressed_Never(flags) == <<>>

FlushUnlessSuppressed(flags) == IF ~flags.dontFlush THEN <<"flush">> ELSE <<>>

\* writeTexturePixels if it flushed before it looked at the unpremul flag.
writeTexturePixels_FlushFirst(flags) ==
    Outcome(FlushUnlessSuppressed(flags)
            \o (IF flags.unpremul THEN <<>> ELSE <<"gpu.writeTexturePixels">>), "void")

writeTexturePixels(flags) ==
    IF flags.unpremul THEN Outcome(<<>>, "void")
    ELSE Outcome(FlushUnlessSuppressed(flags) \o <<"gpu.writeTexturePixels">>, "void")

RECURSIVE readRenderTargetPixels(_, _)
readRenderTargetPixels(e, flags) ==
    IF e.noTarget THEN Outcome(<<>>, "false")
    ELSE LET pre == FlushUnlessSuppressed(flags)
         IN IF flags.unpremul /\ ~e.canPreserve
            THEN IF ~e.cfgOk THEN Outcome(pre, "false")
                 ELSE Outcome(pre \o readRenderTargetPixels(
                                        e, [dontFlush |-> TRUE, unpremul |-> FALSE]).ev,
                              "true")
            ELSE IF ~e.isTexture /\ flags.unpremul THEN Outcome(pre, "false")
            ELSE IF (e.isTexture /\ e.conv) \/ flags.unpremul
            THEN IF ~e.scratchOk THEN Outcome(pre, "false")
                 ELSE Outcome(pre \o <<"gpu.drawSimpleRect", "gpu.readPixels">>, "gpu")
            ELSE Outcome(pre \o <<"gpu.readPixels">>, "gpu")

readTexturePixels(e, flags) ==
    IF ~e.noTarget THEN readRenderTargetPixels(e, flags) ELSE Outcome(<<>>, "false")

RECURSIVE writeRenderTargetPixels(_, _)
writeRenderTargetPixels(e, flags) ==
    IF e.noTarget THEN Outcome(<<>>, "void")
    ELSE IF ~e.macBuild /\ e.isTexture /\ ~flags.unpremul
    THEN writeTexturePixels(flags)
    ELSE IF flags.unpremul /\ ~e.canPreserve
    THEN IF ~e.cfgOk THEN Outcome(<<>>, "void")
         ELSE writeRenderTargetPixels(e, [flags EXCEPT !.unpremul = FALSE])
    ELSE IF ~e.scratchOk THEN Outcome(<<>>, "void")
    ELSE Outcome(writeTexturePixels([flags EXCEPT !.unpremul = FALSE]).ev
                 \o (IF e.geoOk THEN <<"gpu.drawNonIndexed">> ELSE <<>>), "void")

PixelOutcome(name, e, flags) ==
    CASE name = "writeTexturePixels" -> writeTexturePixels(flags)
      [] name = "readTexturePixels" -> readTexturePixels(e, flags)
      [] name = "readRenderTargetPixels" -> readRenderTargetPixels(e, flags)
      [] name = "writeRenderTargetPixels" -> writeRenderTargetPixels(e, flags)

\* The deepest nesting a call is followed to.
MaxNest == 3

\* The flags of the inner call if it kept the unpremul flag of the outer one.
ReadInnerFlags_KeepUnpremul(flags) == [dontFlush |-> TRUE, unpremul |-> flags.unpremul]

\* The inner call of readRenderTargetPixels is made with kDontFlush_PixelOpsFlag.
ReadInnerFlags(flags) == [dontFlush |-> TRUE, unpremul |-> FALSE]

\* flags &= ~kUnpremul_PixelOpsFlag before the inner call of writeRenderTargetPixels.
WriteInnerFlags(flags) == [flags EXCEPT !.unpremul = FALSE]

\* The call of name with flags calls itself again.
Reenters(name, e, flags) ==
    CASE name = "readRenderTargetPixels" ->
             ~e.noTarget /\ flags.unpremul /\ ~e.canPreserve /\ e.cfgOk
      [] name = "writeRenderTargetPixels" ->
             /\ ~e.noTarget
             /\ ~(~e.macBuild /\ e.isTexture /\ ~flags.unpremul)
             /\ flags.unpremul /\ ~e.canPreserve /\ e.cfgOk
      [] OTHER -> FALSE

\* How deep a call of name nests in itself, and the flags of the innermost
\* call; readTexturePixels hands a render target to readRenderTargetPixels.
RECURSIVE PixelNesting(_, _, _, _)
PixelNesting(name, e, flags, n) ==
    IF name = "readTexturePixels"
    THEN IF ~e.noTarget THEN PixelNesting("readRenderTargetPixels", e, flags, n)
         ELSE [depth |-> n, inner |-> flags]
    ELSE IF Reenters(name, e, flags) /\ n < MaxNest
    THEN PixelNesting(name, e,
                      IF name = "readRenderTargetPixels" THEN ReadInnerFlags(flags)
                      ELSE WriteInnerFlags(flags), n + 1)
    ELSE [depth |-> n, inner |-> flags]

\* A call and what it met: how deep it nested, the flags of the innermost
\* call, what it did and returned.
Nested(name, flags, e, nesting, out) ==
    [op |-> name, flags |-> flags, e |-> e, depth |-> nesting.depth,
     inner |-> nesting.inner, ev |-> out.ev, ret |-> out.ret]

NoNest ==
    Nested("none", [dontFlush |-> FALSE, unpremul |-> FALSE],
           CHOOSE e \in PixelEnvs : e.noTarget,
           [depth |-> 0, inner |-> [dontFlush |-> FALSE, unpremul |-> FALSE]],
           Outcome(<<>>, "void"))

\* A pixel operation as a function of its flags and of what it meets.  Nothing
\* of an earlier call enters it, so one call is looked at in a behaviour.
PixelOpOutcome(name, e, flags) ==
    /\ pixelNest = NoNest
    /\ pixelNest' = Nested(name, flags, e, PixelNesting(name, e, flags, 0),
                           PixelOutcome(name, e, flags))
    /\ UNCHANGED <<cacheVars, drawVars, pixelVars, gfxVars, lossVars, pathVars, readVars,
                   faultVars, lastResize, lastBlur, lastTeardown>>

\* The flushes among ev.
Flushes(ev) == Cardinality({i \in DOMAIN ev : ev[i] = "flush"})

\* The calls on the device among ev, in order.
RECURSIVE Transfers(_)
Transfers(ev) ==
    IF ev = <<>> THEN <<>>
    ELSE (IF Head(ev) = "flush" THEN <<>> ELSE <<Head(ev)>>) \o Transfers(Tail(ev))

\* A pixel operation and what it observed: its flags, the calls it makes, the
\* commands recorded and the device log when it was made, whether it was made
\* from inside a replay, and whether it has returned.
PixelCall(name, flags, out, pending, logBefore, reentrant, done) ==
    [op |-> name, flags |-> flags, ev |-> out.ev, ret |-> out.ret, pending |-> pending,
     logBefore |-> logBefore, reentrant |-> reentrant, done |-> done]

NoPixelCall ==
    PixelCall("none", [dontFlush |-> FALSE, unpremul |-> FALSE], Outcome(<<>>, "void"),
              <<>>, <<>>, FALSE, TRUE)

\* What the device log keeps of a call a pixel operation makes on the device.
PixelCmd == "px"

RECURSIVE ExecEvents(_, _)
\* The device log after the device executed the calls ev, from log.
ExecEvents(log, ev) ==
    IF ev = <<>> THEN log ELSE ExecEvents(DeviceExec(log, PixelCmd), Tail(ev))

(***************************************************************************)
(* A drawing call: prepareToDraw(paint, buffered), then the draw on the    *)
(* target it returned.                                                     *)
(***************************************************************************)
DrawCall(cmd, buffered) ==
    /\ flushStack = <<>>
    /\ fDrawBuffer # NULL
    /\ IF NeedsFlush(buffered, fLastDrawWasBuffered)
       THEN \* flushDrawBuffer; the call goes on in FlushEnd
            /\ StartFlush("prepareToDraw", cmd, buffered)
            /\ lastDraw' = Draw("draw", buffered, fLastDrawWasBuffered, cmd, bufCmds,
                                devLog, 1, FALSE)
            /\ UNCHANGED <<bufCmds, fLastDrawWasBuffered, devLog>>
       ELSE IF buffered
       THEN \* the draw is recorded in the draw buffer
            /\ Len(bufCmds) < MaxCmds
            /\ bufCmds' = Append(bufCmds, cmd)
            /\ fLastDrawWasBuffered' = TRUE
            /\ lastDraw' = Draw("draw", buffered, fLastDrawWasBuffered, cmd, bufCmds,
                                devLog, 0, TRUE)
            /\ UNCHANGED <<fDrawBuffer, devLog, flushStack>>
       ELSE \* the draw goes to the device
            /\ devLog' = DeviceExec(devLog, cmd)
            /\ lastDraw' = Draw("draw", buffered, fLastDrawWasBuffered, cmd, bufCmds,
                                devLog, 0, TRUE)
            /\ UNCHANGED <<fDrawBuffer, bufCmds, fLastDrawWasBuffered, flushStack>>
    /\ UNCHANGED liveBuf
    /\ UNCHANGED cacheVars
    /\ pixelOp' = NoPixelCall
    /\ UNCHANGED <<gfxVars, lossVars, pathVars, readVars, faultVars, extraVars>>

(***************************************************************************)
(* GrContext::flush(flagsBitfield).                                        *)
(***************************************************************************)
\* Whether flush resets the buffer instead of replaying it: the Discard bit.
FlushDiscards_Never(discard) == FALSE

FlushDiscards(discard) == discard

\* GrInOrderDrawBuffer::reset: every recorded command is dropped.
ResetCmds(cmds) == <<>>

Flush(discard) ==
    /\ flushStack = <<>>
    /\ fDrawBuffer # NULL
    /\ IF FlushDiscards(discard)
       THEN /\ bufCmds' = ResetCmds(bufCmds)
            /\ lastDraw' = Draw(IF discard THEN "flushDiscard" ELSE "flush", FALSE,
                                fLastDrawWasBuffered, NoCmd, bufCmds, devLog, 0, TRUE)
            /\ UNCHANGED <<fDrawBuffer, flushStack>>
       ELSE /\ StartFlush("flush", NoCmd, FALSE)
            /\ lastDraw' = Draw(IF discard THEN "flushDiscard" ELSE "flush", FALSE,
                                fLastDrawWasBuffered, NoCmd, bufCmds, devLog, 1, FALSE)
            /\ UNCHANGED bufCmds
    /\ UNCHANGED <<liveBuf, fLastDrawWasBuffered, devLog>>
    /\ UNCHANGED cacheVars
    /\ UNCHANGED auxVars

(***************************************************************************)
(* GrInOrderDrawBuffer::flushTo: the next recorded command is replayed.    *)
(***************************************************************************)
ReplayCommand ==
    /\ flushStack # <<>>
    /\ Top.pos <= Len(bufCmds)
    /\ devLog' = DeviceExec(devLog, ReplayedCmd(bufCmds, Top.pos))
    /\ flushStack' = [flushStack EXCEPT ![Len(flushStack)].pos = @ + 1]
    /\ UNCHANGED <<fDrawBuffer, bufCmds, liveBuf, fLastDrawWasBuffered, lastDraw>>
    /\ UNCHANGED cacheVars
    /\ UNCHANGED auxVars

(***************************************************************************)
(* During the replay the device asks the context to flush (the software    *)
(* path renderer uploading a clip mask): GrContext::flushDrawBuffer runs   *)
(* again, inside the replay.                                               *)
(***************************************************************************)
ReentrantFlush ==
    /\ flushStack # <<>>
    /\ Len(flushStack) <= MaxReenter
    /\ Top.reentered < MaxReenter
    /\ IF fDrawBuffer # NULL
       THEN /\ flushStack' = Append([flushStack EXCEPT ![Len(flushStack)].reentered = @ + 1],
                                    Frame("reentrant", fDrawBuffer, NoCmd, FALSE))
            /\ fDrawBuffer' = DuringFlushRef(fDrawBuffer)
            /\ lastDraw' = [lastDraw EXCEPT !.flushes = @ + 1]
       ELSE /\ flushStack' = [flushStack EXCEPT ![Len(flushStack)].reentered = @ + 1]
            /\ UNCHANGED <<fDrawBuffer, lastDraw>>
    /\ UNCHANGED <<bufCmds, liveBuf, fLastDrawWasBuffered, devLog>>
    /\ UNCHANGED cacheVars
    /\ UNCHANGED auxVars

(***************************************************************************)
(* The pixel operations as calls by the client and by the device.           *)
(***************************************************************************)
\* Every outcome an operation can have with given flags, over what it can meet.
OutcomeTable ==
    [name \in PixelOpNames, flags \in PixelOpsFlags |->
        {PixelOutcome(name, e, flags) : e \in PixelEnvs}]

\* A pixel operation called by the client.  When it flushes, the rest of the
\* operation goes on in FlushEnd.
PixelOp(name, flags) ==
    /\ flushStack = <<>>
    /\ fDrawBuffer # NULL
    /\ \E out \in OutcomeTable[name, flags] :
          IF out.ev # <<>> /\ Head(out.ev) = "flush"
          THEN /\ StartFlush("pixelOp", NoCmd, FALSE)
               /\ pixelOp' = PixelCall(name, flags, out, bufCmds, devLog, FALSE, FALSE)
               /\ UNCHANGED devLog
          ELSE /\ devLog' = ExecEvents(devLog, out.ev)
               /\ pixelOp' = PixelCall(name, flags, out, bufCmds, devLog, FALSE, TRUE)
               /\ UNCHANGED <<fDrawBuffer, flushStack>>
    /\ lastDraw' = NoDraw
    /\ UNCHANGED <<bufCmds, liveBuf, fLastDrawWasBuffered>>
    /\ UNCHANGED cacheVars
    /\ UNCHANGED <<gfxVars, lossVars, pathVars, readVars, faultVars, extraVars>>

\* During a replay the device's software path renderer uploads a mask with
\* writeTexturePixels: the flush it asks for finds fDrawBuffer unset.
ReentrantWritePixels ==
    /\ flushStack # <<>>
    /\ Top.caller # "pixelOp"
    /\ Top.reentered < MaxReenter
    /\ fDrawBuffer = NULL
    /\ \E flags \in {[dontFlush |-> FALSE, unpremul |-> FALSE]} :
       \E out \in {writeTexturePixels(flags)} :
          /\ devLog' = ExecEvents(devLog, Transfers(out.ev))
          /\ pixelOp' = PixelCall("writeTexturePixels", flags, out,
                                  SubSeq(bufCmds, Top.pos, Len(bufCmds)), devLog, TRUE, TRUE)
    /\ flushStack' = [flushStack EXCEPT ![Len(flushStack)].reentered = @ + 1]
    /\ UNCHANGED <<fDrawBuffer, bufCmds, liveBuf, fLastDrawWasBuffered, lastDraw>>
    /\ UNCHANGED cacheVars
    /\ UNCHANGED <<gfxVars, lossVars, pathVars, readVars, faultVars, extraVars>>

(***************************************************************************)
(* flushTo has replayed every command and resets the buffer;               *)
(* flushDrawBuffer restores fDrawBuffer and returns to its caller.         *)
(***************************************************************************)
FlushEnd ==
    /\ flushStack # <<>>
    /\ Top.pos > Len(bufCmds)
    /\ fDrawBuffer' = AfterFlushRef(Top.temp)
    /\ flushStack' = SubSeq(flushStack, 1, Len(flushStack) - 1)
    /\ IF Top.caller = "prepareToDraw"
       THEN \* prepareToDraw goes on and returns its target, and the draw follows
            /\ lastDraw' = [lastDraw EXCEPT !.done = TRUE]
            /\ IF Top.buffered
               THEN /\ bufCmds' = <<Top.cmd>>
                    /\ fLastDrawWasBuffered' = TRUE
                    /\ UNCHANGED devLog
               ELSE /\ bufCmds' = <<>>
                    /\ fLastDrawWasBuffered' = FALSE
                    /\ devLog' = DeviceExec(devLog, Top.cmd)
            /\ UNCHANGED pixelOp
       ELSE IF Top.caller = "pixelOp"
       THEN \* the pixel operation goes on with its calls on the device
            /\ bufCmds' = <<>>
            /\ devLog' = ExecEvents(devLog, Transfers(pixelOp.ev))
            /\ pixelOp' = [pixelOp EXCEPT !.done = TRUE]
            /\ UNCHANGED <<fLastDrawWasBuffered, lastDraw>>
       ELSE /\ bufCmds' = <<>>
            /\ lastDraw' = [lastDraw EXCEPT !.done = (Len(flushStack) = 1)]
            /\ UNCHANGED <<fLastDrawWasBuffered, devLog, pixelOp>>
    /\ UNCHANGED liveBuf
    /\ UNCHANGED cacheVars
    /\ UNCHANGED <<gfxVars, lossVars, pathVars, readVars, faultVars, extraVars>>

(***************************************************************************)
(* GrContext::createAndLockTexture for a key that needs resizing, through  *)
(* createResizedTexture: the clamped texture is found or created, a        *)
(* render-target texture is created and the clamped one drawn into it on   *)
(* the device, or, when the device gives no render target, the pixels are  *)
(* stretched on the CPU and a texture is created from them.  The device    *)
(* may refuse the render target (rtOk) and may lack the vertex space       *)
(* (geoOk); it creates a texture while it has room for one.                *)
(***************************************************************************)
\* The key of the resized texture: the descriptor asked for, with the params
\* that make it need resizing.
ResizedKey(desc) == [desc |-> desc, scratch |-> FALSE, resized |-> TRUE]

\* rtDesc of the render-target route.
ResizeTargetDesc(desc) ==
    GrTextureDesc(GrNextPow2(GrMax(desc.fWidth, 64)), GrNextPow2(GrMax(desc.fHeight, 64)),
                  TRUE, TRUE)

\* rtDesc of the CPU route.
StretchedDesc(desc) ==
    GrTextureDesc(GrNextPow2(desc.fWidth), GrNextPow2(desc.fHeight), FALSE, FALSE)

\* The command the device executes for the resize draw.
ResizeCmd == "rs"

Resize(route, desc, rtOk, drew, pending, stretched, ret) ==
    [route |-> route, desc |-> desc, rtOk |-> rtOk, drew |-> drew, pending |-> pending,
     stretched |-> stretched, ret |-> ret]

NoResize == Resize("none", NoDesc, FALSE, FALSE, <<>>, NULL, NULL)

\* A texture the device created that no cache entry holds.
Unregistered(c, t, desc) ==
    [c EXCEPT !.tex[t] = [state |-> "Unregistered", key |-> NoKey, desc |-> desc,
                          locks |-> 0]]

\* The value createResizedTexture returns on the CPU route: the variable
\* named texture of the function's scope, which the else-branch does not
\* assign (it declares one of its own for the texture it creates).
StretchResult(outer, stretched) == outer

\* createResizedTexture after the clamped texture cl is locked in c: the
\* cache after it, the route, whether it drew on the device, the texture
\* created from stretched pixels and the texture returned.
createResizedTexture(c, cl, desc, rtOk, geoOk) ==
    LET rt == IF rtOk THEN DeviceCreate(c) ELSE NULL
    IN  IF rt # NULL
        THEN [c |-> unlock(Unregistered(c, rt, ResizeTargetDesc(desc)), cl),
              route |-> "gpu", drew |-> geoOk, stretched |-> NULL, ret |-> rt]
        ELSE LET st == DeviceCreate(c)
                 c1 == IF st # NULL THEN Unregistered(c, st, StretchedDesc(desc)) ELSE c
             IN  [c |-> unlock(c1, cl), route |-> "cpu", drew |-> FALSE,
                  stretched |-> st, ret |-> StretchResult(rt, st)]

\* if (NULL != texture) fTextureCache->createAndLock(resourceKey, texture)
RegisterResized(c, t, desc, maxCount, maxBytes) ==
    IF t # NULL
    THEN createAndLock(c, ResizedKey(desc), c.tex[t].desc, t, maxCount, maxBytes)
    ELSE c

CreateAndLockResized(desc, rtOk, geoOk) ==
    /\ flushStack = <<>>
    /\ \E c0 \in {[tex |-> tex, lru |-> lru]}, clampedKey \in {ComputeKey(desc, FALSE)} :
       \E found \in (IF Matches(c0, clampedKey) # {} THEN Matches(c0, clampedKey)
                      ELSE {NULL}) :
       \E made \in {IF found = NULL THEN DeviceCreate(c0) ELSE NULL} :
          IF found = NULL /\ made = NULL
          THEN /\ UNCHANGED <<tex, lru, devLog>>
               /\ lastCall' = Call("createAndLockTexture", desc, kExact_ScratchTexMatch,
                                   <<>>, <<desc>>, NULL)
               /\ lastResize' = Resize("noClamped", desc, rtOk, FALSE, bufCmds, NULL, NULL)
          ELSE \E c1 \in {IF found # NULL THEN findAndLock(c0, found)
                           ELSE createAndLock(c0, clampedKey, desc, made,
                                              fMaxCount, fMaxBytes)},
                  cl \in {IF found # NULL THEN found ELSE made} :
               /\ c1.tex[cl].locks <= MaxLocks
               /\ \E r \in {createResizedTexture(c1, cl, desc, rtOk, geoOk)} :
                  \E c2 \in {RegisterResized(r.c, r.ret, desc, fMaxCount, fMaxBytes)} :
                     /\ tex' = c2.tex
                     /\ lru' = c2.lru
                     /\ devLog' = IF r.drew THEN DeviceExec(devLog, ResizeCmd) ELSE devLog
                     /\ lastCall' = Call("createAndLockTexture", desc,
                                         kExact_ScratchTexMatch, <<>>, <<desc>>, r.ret)
                     /\ lastResize' = Resize(r.route, desc, rtOk, r.drew, bufCmds,
                                             r.stretched, r.ret)
    /\ UNCHANGED <<fMaxCount, fMaxBytes>>
    /\ UNCHANGED <<fDrawBuffer, bufCmds, liveBuf, fLastDrawWasBuffered, flushStack, lastDraw>>
    /\ UNCHANGED <<pixelOp, gfxVars, lossVars, pathVars, readVars, faultVars, lastBlur, pixelNest, lastTeardown>>

(***************************************************************************)
(* The route of readRenderTargetPixels: whether it checks out a scratch    *)
(* render target and blits into it, whether it reads through the CPU       *)
(* conversion, what the device read that fills the buffer did, and the     *)
(* value returned.  readOk says that fGpu->readPixels succeeds.            *)
(***************************************************************************)
ReadEnvs == [noTarget : BOOLEAN, canPreserve : BOOLEAN, cfgOk : BOOLEAN,
             isTexture : BOOLEAN, conv : BOOLEAN, scratchOk : BOOLEAN, readOk : BOOLEAN]

Route(scratch, cpu, deviceRead, ret) ==
    [scratch |-> scratch, cpu |-> cpu, deviceRead |-> deviceRead, ret |-> ret]

\* The call returns false before any device read.
EarlyFalse == Route(FALSE, FALSE, "none", FALSE)

\* fGpu->readPixels
DeviceRead(e) == IF e.readOk THEN "ok" ELSE "failed"

\* The value the CPU path returns after the inner read.
CpuPathResult(inner) == TRUE

\* A test that sends every request for unpremultiplied data to the CPU path.
TakesCpuPath_Always(e, flags) == flags.unpremul

\* (kUnpremul_PixelOpsFlag & flags) && !fGpu->canPreserveReadWriteUnpremulPixels()
TakesCpuPath(e, flags) == flags.unpremul /\ ~e.canPreserve

RECURSIVE readRoute(_, _)
readRoute(e, flags) ==
    IF e.noTarget THEN EarlyFalse
    ELSE IF TakesCpuPath(e, flags)
    THEN IF ~e.cfgOk THEN EarlyFalse
         ELSE LET inner == readRoute(e, [dontFlush |-> TRUE, unpremul |-> FALSE])
              IN  [inner EXCEPT !.cpu = TRUE, !.ret = CpuPathResult(inner)]
    ELSE IF ~e.isTexture /\ flags.unpremul THEN EarlyFalse
    ELSE IF (e.isTexture /\ e.conv) \/ flags.unpremul
    THEN IF ~e.scratchOk THEN EarlyFalse
         ELSE Route(TRUE, FALSE, DeviceRead(e), e.readOk)
    ELSE Route(FALSE, FALSE, DeviceRead(e), e.readOk)

ReadCall(e, flags, route) == [op |-> "readRenderTargetPixels", e |-> e, flags |-> flags, route |-> route]

NoRead ==
    [op |-> "none",
     e |-> [noTarget |-> TRUE, canPreserve |-> FALSE, cfgOk |-> FALSE, isTexture |-> FALSE,
            conv |-> FALSE, scratchOk |-> FALSE, readOk |-> FALSE],
     flags |-> [dontFlush |-> FALSE, unpremul |-> FALSE], route |-> EarlyFalse]

\* A readRenderTargetPixels call, seen by its route only.
ReadRenderTargetPixels(e, flags) ==
    /\ lastRead' = ReadCall(e, flags, readRoute(e, flags))
    /\ UNCHANGED <<cacheVars, drawVars, pixelVars, gfxVars, lossVars, pathVars, faultVars, extraVars>>

(***************************************************************************)
(* The path renderers.  The context holds the renderer chain and the       *)
(* software path renderer, both NULL until first needed; made counts the   *)
(* software renderers constructed so far, and names them.                  *)
(***************************************************************************)
Renderers(chain, sw, made, last) ==
    [chain |-> chain, sw |-> sw, made |-> made, last |-> last]

\* A lookup: whether a renderer of the chain qualifies, whether the software
\* fallback is allowed, the renderer returned and the draws issued with it.
Lookup(op, qualifies, allowSW, result, swBefore, ev) ==
    [op |-> op, qualifies |-> qualifies, allowSW |-> allowSW, result |-> result,
     swBefore |-> swBefore, ev |-> ev]

NoLookup == Lookup("none", FALSE, FALSE, "none", NULL, <<>>)

NoRenderers == Renderers(FALSE, NULL, 0, NoLookup)

\* The renderer the chain gives.
ChainRenderer == "chain"

\* The name of a software renderer.
Software(n) == <<"software", n>>

\* A getPathRenderer that constructs a software renderer at every fallback.
LazySoftware_Always(sw, made) == made + 1

\* The software renderer after the fallback: kept, or made when NULL.
LazySoftware(sw, made) == IF sw = NULL THEN made + 1 ELSE sw

\* getPathRenderer: the renderers held after the call, and its result.
getPathRenderer(r, qualifies, allowSW) ==
    LET sw == IF ~qualifies /\ allowSW THEN LazySoftware(r.sw, r.made) ELSE r.sw
        made == IF sw > r.made THEN sw ELSE r.made
        pr == IF qualifies THEN <<ChainRenderer>>
              ELSE IF allowSW THEN Software(sw)
              ELSE <<>>
    IN  [chain |-> TRUE, sw |-> sw, made |-> made, pr |-> pr]

GetPathRenderer(qualifies, allowSW) ==
    /\ \E g \in {getPathRenderer(pathR, qualifies, allowSW)} :
          /\ g.made <= MaxRenderers
          /\ pathR' = Renderers(g.chain, g.sw, g.made,
                                Lookup("getPathRenderer", qualifies, allowSW, g.pr,
                                       pathR.sw, <<>>))
    /\ UNCHANGED <<cacheVars, drawVars, pixelVars, gfxVars, lossVars, readVars, faultVars, extraVars>>

\* The renderer lookup of internalDrawPath and the draw that follows it.
PathRendererDraw(qualifies) ==
    /\ \E g \in {getPathRenderer(pathR, qualifies, TRUE)} :
          /\ g.made <= MaxRenderers
          /\ pathR' = Renderers(g.chain, g.sw, g.made,
                                Lookup("internalDrawPath", qualifies, TRUE, g.pr, pathR.sw,
                                       IF g.pr = <<>> THEN <<>> ELSE <<"drawPath">>))
    /\ UNCHANGED <<cacheVars, drawVars, pixelVars, gfxVars, lossVars, readVars, faultVars, extraVars>>

(***************************************************************************)
(* GrContext::contextLost: contextDestroyed, then setupDrawBuffer.  The    *)
(* steps are kept in the order the code takes them.                        *)
(***************************************************************************)
contextDestroyed ==
    <<"abandonResources", "dropPathRenderers", "deleteDrawBuffer", "deletePools",
      "resetAARectRenderer", "removeAll", "freeAll", "markContextDirty">>

\* A setupDrawBuffer that constructs nothing.
setupDrawBuffer_None(made) == NULL

\* setupDrawBuffer: the draw buffer it constructs, given how many were made.
setupDrawBuffer(made) == made + 1

ContextLost ==
    /\ flushStack = <<>>
    /\ liveBuf < MaxBufs
    /\ lossSteps' = contextDestroyed \o <<"setupDrawBuffer">>
    /\ tex' = [t \in TexIds |-> NoTex]
    /\ lru' = <<>>
    /\ liveBuf' = liveBuf + 1
    /\ fDrawBuffer' = setupDrawBuffer(liveBuf)
    /\ bufCmds' = <<>>
    /\ lastDraw' = Draw("contextLost", FALSE, fLastDrawWasBuffered, NoCmd, bufCmds,
                        devLog, 0, TRUE)
    /\ UNCHANGED <<fMaxCount, fMaxBytes, lastCall, fLastDrawWasBuffered, devLog, flushStack>>
    /\ pathR' = Renderers(FALSE, NULL, pathR.made, NoLookup)
    /\ UNCHANGED <<pixelOp, gfxVars, readVars, faultVars, extraVars>>

(***************************************************************************)
(* GrContext::contextDestroyed called on its own, and the calls that       *)
(* follow it.  No setupDrawBuffer runs, so fDrawBuffer stays NULL; flush    *)
(* and prepareToDraw call fDrawBuffer->reset() and fDrawBuffer->setClip()  *)
(* without a test.  A member call through NULL either ends the process or  *)
(* goes on.                                                                *)
(***************************************************************************)
Fault(call, outcome) == [call |-> call, outcome |-> outcome]

NoFault == Fault("none", "none")

NullCallOutcomes == {"crash", "wild"}

\* The process has not been ended by a call through NULL.
Running == fault.outcome # "crash"

ContextDestroyed ==
    /\ flushStack = <<>>
    /\ lossSteps' = contextDestroyed
    /\ tex' = [t \in TexIds |-> NoTex]
    /\ lru' = <<>>
    /\ fDrawBuffer' = NULL
    /\ bufCmds' = <<>>
    /\ lastDraw' = Draw("contextDestroyed", FALSE, fLastDrawWasBuffered, NoCmd, bufCmds,
                        devLog, 0, TRUE)
    /\ UNCHANGED <<fMaxCount, fMaxBytes, lastCall, liveBuf, fLastDrawWasBuffered, devLog,
                   flushStack>>
    /\ pathR' = Renderers(FALSE, NULL, pathR.made, NoLookup)
    /\ UNCHANGED <<pixelOp, gfxVars, readVars, faultVars, extraVars>>

\* prepareToDraw and the draw, outside a replay, when fDrawBuffer is NULL:
\* flushDrawBuffer does nothing, a buffered request calls setClip through NULL.
DrawCallNoBuffer(cmd, buffered) ==
    /\ flushStack = <<>>
    /\ fDrawBuffer = NULL
    /\ IF buffered
       THEN \E outcome \in NullCallOutcomes :
               /\ fault' = Fault("fDrawBuffer->setClip", outcome)
               /\ fLastDrawWasBuffered' =
                      IF outcome = "wild" THEN TRUE ELSE fLastDrawWasBuffered
               /\ lastDraw' = Draw("draw", buffered, fLastDrawWasBuffered, cmd, bufCmds,
                                   devLog, 0, outcome = "wild")
               /\ UNCHANGED devLog
       ELSE /\ fLastDrawWasBuffered' = FALSE
            /\ devLog' = DeviceExec(devLog, cmd)
            /\ lastDraw' = Draw("draw", buffered, fLastDrawWasBuffered, cmd, bufCmds,
                                devLog, 0, TRUE)
            /\ UNCHANGED fault
    /\ UNCHANGED <<fDrawBuffer, bufCmds, liveBuf, flushStack>>
    /\ UNCHANGED cacheVars
    /\ pixelOp' = NoPixelCall
    /\ UNCHANGED <<gfxVars, lossVars, pathVars, readVars, extraVars>>

\* flush, outside a replay, when fDrawBuffer is NULL: flushDrawBuffer does
\* nothing, the Discard bit calls reset through NULL.
FlushNoBuffer(discard) ==
    /\ flushStack = <<>>
    /\ fDrawBuffer = NULL
    /\ IF FlushDiscards(discard)
       THEN \E outcome \in NullCallOutcomes :
               /\ fault' = Fault("fDrawBuffer->reset", outcome)
               /\ lastDraw' = Draw("flushDiscard", FALSE, fLastDrawWasBuffered, NoCmd,
                                   bufCmds, devLog, 0, outcome = "wild")
       ELSE /\ lastDraw' = Draw("flush", FALSE, fLastDrawWasBuffered, NoCmd, bufCmds,
                                devLog, 0, TRUE)
            /\ UNCHANGED fault
    /\ UNCHANGED <<fDrawBuffer, bufCmds, liveBuf, fLastDrawWasBuffered, devLog, flushStack>>
    /\ UNCHANGED cacheVars
    /\ UNCHANGED <<pixelOp, gfxVars, lossVars, pathVars, readVars, extraVars>>

(***************************************************************************)
(* The draw state.  A GrMatrix is kept by its four linear entries and a    *)
(* perspective flag; translation plays no part in any test below.  The     *)
(* draw state record keeps the view matrix, the render target, the clip,   *)
(* whether texture stage 0 is enabled, the color, the hardware-antialias   *)
(* bit and the vertex edge type.                                           *)
(***************************************************************************)
GrMatrix(mx, sx, sy, my, persp) ==
    [mx |-> mx, sx |-> sx, sy |-> sy, my |-> my, persp |-> persp]

MatrixI == GrMatrix(1, 0, 0, 1, FALSE)
MatrixRot90 == GrMatrix(0, -1, 1, 0, FALSE)
MatrixScaleXY == GrMatrix(2, 0, 0, 1, FALSE)
MatrixSkew == GrMatrix(1, 1, 0, 1, FALSE)
MatrixZero == GrMatrix(0, 0, 0, 0, FALSE)
MatrixPersp == GrMatrix(1, 0, 0, 1, TRUE)

Matrices == {MatrixI, MatrixRot90, MatrixScaleXY, MatrixSkew, MatrixZero, MatrixPersp}

\* The optional local matrix of a call: a NULL pointer is the empty sequence,
\* a pointer to m is <<m>>.
NoMatrix == <<>>
LocalMatrices == {NoMatrix, <<MatrixScaleXY>>, <<MatrixSkew>>}

isIdentity(m) == m = MatrixI

hasPerspective(m) == m.persp

\* a.preConcat(b): a * b
preConcat(a, b) ==
    GrMatrix(a.mx * b.mx + a.sx * b.sy, a.mx * b.sx + a.sx * b.my,
             a.sy * b.mx + a.my * b.sy, a.sy * b.sx + a.my * b.my,
             a.persp \/ b.persp)

invertible(m) == m.mx * m.my - m.sx * m.sy # 0

preservesAxisAlignment(m) ==
    /\ ~m.persp
    /\ \/ m.sx = 0 /\ m.sy = 0 /\ m.mx # 0 /\ m.my # 0
       \/ m.mx = 0 /\ m.my = 0 /\ m.sx # 0 /\ m.sy # 0

\* A variant that accepts every matrix without perspective.
isSimilarityTransformation_NoPersp(m) == ~hasPerspective(m)

\* isSimilarityTransformation: will the matrix map a circle to a circle.
isSimilarityTransformation(m) ==
    IF isIdentity(m) THEN TRUE
    ELSE IF hasPerspective(m) THEN FALSE
    ELSE IF m.mx = 0 /\ m.sx = 0 /\ m.my = 0 /\ m.sy = 0 THEN FALSE
    ELSE /\ m.mx * m.sy + m.sx * m.my = 0
         /\ m.mx * m.mx + m.sx * m.sx = m.sy * m.sy + m.my * m.my

\* No render target is set.
NoTarget == "rtNone"
RenderTargets == {"rtPlain", "rtMS"}

isMultisampled(rt) == rt = "rtMS"

kWhite == 0
PaintColors == {1, 2}

GrPaint(color, aa, texture) == [fColor |-> color, fAntiAlias |-> aa, tex |-> texture]

Paints == {GrPaint(c, aa, t) : c \in PaintColors, aa \in BOOLEAN, t \in BOOLEAN}

NoPaint == GrPaint(kWhite, FALSE, FALSE)

\* GrPaint after reset(), with a texture in stage 0.
ResetPaintWithTexture == GrPaint(kWhite, FALSE, TRUE)

kHairLine_EdgeType == "kHairLine"
kCircle_EdgeType == "kCircle"

WideClip == "wide"
OpClip == "op"

GrDrawState(vm, rt, clip, stage0, color, hwAA, edge) ==
    [viewMatrix |-> vm, renderTarget |-> rt, clip |-> clip, stage0 |-> stage0,
     color |-> color, hwAA |-> hwAA, edgeType |-> edge]

\* The draw state the constructor makes.
NewDrawState ==
    GrDrawState(MatrixI, NoTarget, WideClip, FALSE, kWhite, FALSE, kHairLine_EdgeType)

stagesDisabled(ds) == ~ds.stage0

\* A setPaint that adds the paint's color to the color already set.
setPaint_Accumulate(ds, paint) ==
    [ds EXCEPT !.stage0 = IF paint.tex THEN TRUE ELSE @,
               !.color = (@ + paint.fColor) % 3,
               !.hwAA = paint.fAntiAlias]

\* setPaint: the sampler of an enabled paint stage is copied, the color and
\* the antialias bit are set from the paint.
setPaint(ds, paint) ==
    [ds EXCEPT !.stage0 = IF paint.tex THEN TRUE ELSE @,
               !.color = paint.fColor,
               !.hwAA = paint.fAntiAlias]

\* ~AutoStageDisable
AutoStageDisable_Skip(ds) == ds

AutoStageDisable(ds) == [ds EXCEPT !.stage0 = FALSE]

\* ~AutoViewMatrixRestore, ~AutoDeviceCoordDraw, ~AutoMatrix
AutoViewMatrixRestore_Skip(ds, saved) == ds

AutoViewMatrixRestore(ds, saved) == [ds EXCEPT !.viewMatrix = saved]

\* ~AutoClip
AutoClipRestore(ds, saved) == [ds EXCEPT !.clip = saved]

\* What an operation did: the draw state it leaves, the draws it issued in
\* order, and what it returned.
Gfx(ds, ev, ret) == [ds |-> ds, ev |-> ev, ret |-> ret]

\* What a call meets in the device and the build:
\*   tweakAlpha     target->canTweakAlphaForCoverage()
\*   applyCoverage  target->canApplyCoverage()
\*   hwAALines      target->willUseHWAALines()
\*   intRect        the mapped rectangle lies on integer coordinates
\*   adcdOk         AutoDeviceCoordDraw succeeded
\*   geoOk          the vertex space or the static vertex buffer was obtained
\*   staticVB       GR_STATIC_RECT_VB
GfxEnvs == [tweakAlpha : BOOLEAN, applyCoverage : BOOLEAN, hwAALines : BOOLEAN,
            intRect : BOOLEAN, adcdOk : BOOLEAN, geoOk : BOOLEAN, staticVB : BOOLEAN]

DISABLE_COVERAGE_AA_FOR_BLEND == TRUE

disable_coverage_aa_for_blend(e) == DISABLE_COVERAGE_AA_FOR_BLEND /\ ~e.applyCoverage

\* A variant without the axis-alignment tests.
apply_aa_to_rect_AnyMatrix(ds, width, matrix, e) ==
    IF ~e.tweakAlpha /\ disable_coverage_aa_for_blend(e) THEN FALSE
    ELSE IF isMultisampled(ds.renderTarget) THEN FALSE
    ELSE IF width = 0 /\ e.hwAALines THEN FALSE
    ELSE IF width < 0 THEN ~e.intRect
    ELSE TRUE

apply_aa_to_rect(ds, width, matrix, e) ==
    IF ~e.tweakAlpha /\ disable_coverage_aa_for_blend(e) THEN FALSE
    ELSE IF isMultisampled(ds.renderTarget) THEN FALSE
    ELSE IF width = 0 /\ e.hwAALines THEN FALSE
    ELSE IF ~preservesAxisAlignment(ds.viewMatrix) THEN FALSE
    ELSE IF matrix # NoMatrix /\ ~preservesAxisAlignment(matrix[1]) THEN FALSE
    ELSE IF width < 0 THEN ~e.intRect
    ELSE TRUE

StrokeWidths == {-1, 0, 1}

drawRect(ds0, paint, width, matrix, e) ==
    LET ds1 == setPaint(ds0, paint)
        needAA == paint.fAntiAlias /\ ~isMultisampled(ds1.renderTarget)
        doAA == needAA /\ apply_aa_to_rect(ds1, width, matrix, e)
        \* the view matrix while the draw is issued, and after the guard
        concat == IF matrix # NoMatrix THEN preConcat(ds1.viewMatrix, matrix[1])
                  ELSE ds1.viewMatrix
        during(m) == [ds1 EXCEPT !.viewMatrix = m]
        leave(ds) == AutoStageDisable(AutoViewMatrixRestore(ds, ds1.viewMatrix))
    IN  IF doAA THEN
            IF ~e.adcdOk THEN Gfx(leave(during(MatrixI)), <<>>, "void")
            ELSE IF width >= 0
                 THEN Gfx(leave(during(MatrixI)), <<"strokeAARect">>, "void")
                 ELSE Gfx(leave(during(MatrixI)), <<"fillAARect">>, "void")
        ELSE IF width >= 0 THEN
            IF ~e.geoOk THEN Gfx(AutoStageDisable(ds1), <<>>, "void")
            ELSE Gfx(leave(during(concat)), <<"rect">>, "void")
        ELSE IF e.staticVB THEN
            IF ~e.geoOk THEN Gfx(AutoStageDisable(ds1), <<>>, "void")
            ELSE Gfx(leave(during(concat)), <<"rect">>, "void")
        ELSE Gfx(AutoStageDisable(ds1), <<"rect">>, "void")

\* drawPaint: fill the render target.  The paint is drawn without AA.
drawPaint(ds0, paint, e) ==
    LET p == [paint EXCEPT !.fAntiAlias = FALSE]
    IN  IF ~hasPerspective(ds0.viewMatrix) THEN
            IF ~invertible(ds0.viewMatrix) THEN Gfx(ds0, <<>>, "void")
            ELSE drawRect(ds0, p, -1, NoMatrix, e)
        ELSE LET r == drawRect([ds0 EXCEPT !.viewMatrix = MatrixI], p, -1, NoMatrix, e)
             IN  Gfx(AutoViewMatrixRestore(r.ds, ds0.viewMatrix), r.ev, r.ret)

drawRectToRect(ds0, paint, dstMatrix, e) ==
    IF ~paint.tex THEN drawRect(ds0, paint, -1, dstMatrix, e)
    ELSE LET ds1 == setPaint(ds0, paint)
             concat == IF dstMatrix # NoMatrix THEN preConcat(ds1.viewMatrix, dstMatrix[1])
                       ELSE ds1.viewMatrix
             during == [ds1 EXCEPT !.viewMatrix = concat]
             leave == AutoStageDisable(AutoViewMatrixRestore(during, ds1.viewMatrix))
         IN  IF e.staticVB THEN
                 IF ~e.geoOk THEN Gfx(leave, <<>>, "void")
                 ELSE Gfx(leave, <<"rect">>, "void")
             ELSE Gfx(AutoStageDisable(ds1), <<"rect">>, "void")

\* drawVertices: hasAttrs says that texture coordinates or colors come
\* with the positions, so that vertex space is reserved.
drawVertices(ds0, paint, hasAttrs, e) ==
    LET ds1 == setPaint(ds0, paint)
    IN  IF hasAttrs /\ ~e.geoOk THEN Gfx(AutoStageDisable(ds1), <<>>, "void")
        ELSE Gfx(AutoStageDisable(ds1), <<"vertices">>, "void")

kWinding_GrPathFill == "kWinding"
kHairLine_GrPathFill == "kHairLine"
kInverseWinding_GrPathFill == "kInverseWinding"
PathFills == {kWinding_GrPathFill, kHairLine_GrPathFill, kInverseWinding_GrPathFill}

GrIsFillInverted(fill) == fill = kInverseWinding_GrPathFill

\* The draw a path renderer issues for a path with the given fill.
PathDraw(fill) ==
    IF fill = kHairLine_GrPathFill THEN "hairlinePath"
    ELSE IF fill = kWinding_GrPathFill THEN "filledPath"
    ELSE "inversePath"

\* getPathRenderer with allowSW: the chain's renderer, or the software one.
internalDrawPath(ds0, paint, fill, e) ==
    LET ds1 == setPaint(ds0, paint)
    IN  Gfx(AutoStageDisable(ds1), <<PathDraw(fill)>>, "void")

\* The test that sends drawOval to the generic path.
OvalFallsBack_StrokeOnly(vm, paint, circle, strokeWidth) ==
    ~isSimilarityTransformation(vm) \/ strokeWidth # 0

OvalFallsBack(vm, paint, circle, strokeWidth) ==
    ~isSimilarityTransformation(vm) \/ ~paint.fAntiAlias \/ ~circle

OvalWidths == {-1, 0}

\* drawOval.  circle says rect.height() == rect.width().
drawOval(ds0, paint, circle, strokeWidth, e) ==
    IF OvalFallsBack(ds0.viewMatrix, paint, circle, strokeWidth) THEN
        internalDrawPath(ds0, paint,
                         IF strokeWidth = 0 THEN kHairLine_GrPathFill
                         ELSE kWinding_GrPathFill, e)
    ELSE LET ds1 == setPaint(ds0, paint)
             during == [ds1 EXCEPT !.viewMatrix = MatrixI]
             leave(ds) == AutoStageDisable(AutoViewMatrixRestore(ds, ds1.viewMatrix))
         IN  IF ds1.renderTarget = NoTarget THEN Gfx(AutoStageDisable(ds1), <<>>, "void")
             ELSE IF ~e.adcdOk THEN Gfx(leave(during), <<>>, "void")
             ELSE IF ~e.geoOk THEN Gfx(leave(during), <<>>, "void")
             ELSE Gfx(leave([during EXCEPT !.edgeType = kCircle_EdgeType]),
                      <<"circle">>, "void")

PathKinds == {"empty", "oval", "other"}

drawPath(ds0, paint, kind, circle, fill, e) ==
    IF kind = "empty" THEN
        IF GrIsFillInverted(fill) THEN drawPaint(ds0, paint, e)
        ELSE Gfx(ds0, <<>>, "void")
    ELSE IF ~GrIsFillInverted(fill) /\ kind = "oval" THEN
        drawOval(ds0, paint, circle, IF fill = kHairLine_GrPathFill THEN 0 ELSE -1, e)
    ELSE internalDrawPath(ds0, paint, fill, e)

(***************************************************************************)
(* gaussianBlur and applyMorphology draw into scratch textures.  A texture *)
(* is named "src", "temp1" or "temp2", or is NULL when the scratch         *)
(* allocation gave none.  Calling asRenderTarget() on NULL is undefined:   *)
(* onNull chooses between the call ending there ("crash") and the call     *)
(* going on with an arbitrary render target ("wild").                      *)
(***************************************************************************)
WildTarget == "rtWild"

\* The NULL texture pointer.
NoTexture == "texNone"

NullOutcomes == {"crash", "wild"}

asRenderTarget(t) == t

\* What the operation meets:
\*   canClobberSrc  the caller allows the source to be overwritten
\*   down           the sigma is large enough for a scale factor above 1
\*   sigmaX, sigmaY the sigma is positive
\*   temp1Ok, temp2Ok  the scratch allocation gave a texture
BlurEnvs == [canClobberSrc : BOOLEAN, down : BOOLEAN, sigmaX : BOOLEAN,
             sigmaY : BOOLEAN, temp1Ok : BOOLEAN, temp2Ok : BOOLEAN]

\* The passes of gaussianBlur in order.
BlurPasses(e) ==
    (IF e.down THEN <<"down">> ELSE <<>>) \o
    (IF e.sigmaX THEN <<"convX">> ELSE <<>>) \o
    (IF e.sigmaY THEN <<"convY">> ELSE <<>>) \o
    (IF e.down THEN <<"up">> ELSE <<>>)

\* The state of a run: the draw state, the draws issued, the three texture
\* pointers, and whether a NULL texture was dereferenced.
Run(ds, ev, src, dst, temp, nullUsed, ret) ==
    [ds |-> ds, ev |-> ev, src |-> src, dst |-> dst, temp |-> temp,
     nullUsed |-> nullUsed, ret |-> ret]

\* dstTexture->asRenderTarget()
TargetOf(dst, onNull) ==
    IF dst = NoTexture THEN (IF onNull = "crash" THEN "crash" ELSE WildTarget)
    ELSE asRenderTarget(dst)

\* The rect draws of a blur meet a device that gives what they ask for.
BlurDrawEnv ==
    [tweakAlpha |-> TRUE, applyCoverage |-> TRUE, hwAALines |-> FALSE, intRect |-> TRUE,
     adcdOk |-> TRUE, geoOk |-> TRUE, staticVB |-> FALSE]

\* One pass: set the render target, draw, advance the pointers.
BlurPass(r, pass, onNull) ==
    LET rt == TargetOf(r.dst, onNull)
        ds1 == [r.ds EXCEPT !.renderTarget = rt]
        drawn == IF pass \in {"down", "up"}
                 THEN drawRectToRect(ds1, ResetPaintWithTexture, NoMatrix, BlurDrawEnv)
                 ELSE Gfx(ds1, <<"conv">>, "void")
    IN  IF rt = "crash" THEN [r EXCEPT !.nullUsed = TRUE, !.ret = "crash"]
        ELSE Run(drawn.ds, r.ev \o drawn.ev, r.dst, r.temp, r.dst,
                 r.nullUsed \/ r.dst = NoTexture, r.ret)

RECURSIVE BlurRun(_, _, _)
BlurRun(r, passes, onNull) ==
    IF passes = <<>> \/ r.ret # "run" THEN r
    ELSE BlurRun(BlurPass(r, Head(passes), onNull), Tail(passes), onNull)

gaussianBlur(ds0, e, onNull) ==
    LET oldRenderTarget == ds0.renderTarget
        ds1 == [ds0 EXCEPT !.viewMatrix = MatrixI, !.clip = OpClip]
        temp1 == IF e.temp1Ok THEN "temp1" ELSE NoTexture
        temp2 == IF e.canClobberSrc THEN "src"
                 ELSE IF e.temp2Ok THEN "temp2" ELSE NoTexture
        r == BlurRun(Run(ds1, <<>>, "src", temp1, temp2, FALSE, "run"),
                     BlurPasses(e), onNull)
        restored == AutoViewMatrixRestore(
                        AutoClipRestore([r.ds EXCEPT !.renderTarget = oldRenderTarget],
                                        ds0.clip),
                        ds0.viewMatrix)
    IN  IF r.ret = "crash" THEN r
        ELSE [r EXCEPT !.ds = restored, !.ret = r.src]

\*   radiusW, radiusH  radius.fWidth > 0, radius.fHeight > 0
\*   ast1Ok, ast2Ok    the scratch allocation of the pass gave a texture
MorphEnvs == [radiusW : BOOLEAN, radiusH : BOOLEAN, ast1Ok : BOOLEAN, ast2Ok : BOOLEAN]

\* One pass of applyMorphology: ast is the scratch texture of the pass.
MorphPass(r, ast, onNull) ==
    LET rt == TargetOf(ast, onNull)
        ds1 == [r.ds EXCEPT !.renderTarget = rt]
    IN  IF rt = "crash" THEN [r EXCEPT !.nullUsed = TRUE, !.ret = "crash"]
        ELSE Run(ds1, r.ev \o <<"morph">>, ast, r.dst, r.temp,
                 r.nullUsed \/ ast = NoTexture, r.ret)

applyMorphology(ds0, e, onNull) ==
    LET oldRenderTarget == ds0.renderTarget
        ds1 == [ds0 EXCEPT !.viewMatrix = MatrixI, !.clip = OpClip]
        r0 == Run(ds1, <<>>, "src", NoTexture, NoTexture, FALSE, "run")
        r1 == IF e.radiusW
              THEN MorphPass(r0, IF e.ast1Ok THEN "temp1" ELSE NoTexture, onNull)
              ELSE r0
        r2 == IF e.radiusH /\ r1.ret = "run"
              THEN MorphPass(r1, IF e.ast2Ok THEN "temp2" ELSE NoTexture, onNull)
              ELSE r1
        restored == AutoViewMatrixRestore(
                        AutoClipRestore([r2.ds EXCEPT !.renderTarget = oldRenderTarget],
                                        ds0.clip),
                        ds0.viewMatrix)
    IN  IF r2.ret = "crash" THEN r2
        ELSE [r2 EXCEPT !.ds = restored, !.ret = r2.src]

(***************************************************************************)
(* Calls on the draw state.  lastGfx keeps the call, its inputs, the draw  *)
(* state before it, the draws it issued and what it returned.              *)
(***************************************************************************)
GfxCall(op, paint, args, pre, ev, ret, nullUsed) ==
    [op |-> op, paint |-> paint, args |-> args, pre |-> pre, ev |-> ev, ret |-> ret,
     nullUsed |-> nullUsed]

NoGfx == GfxCall("none", NoPaint, <<>>, NewDrawState, <<>>, "void", FALSE)

\* The process is running: no call has ended in a crash.
Alive == lastGfx.ret # "crash"

GfxFrame == UNCHANGED <<cacheVars, drawVars, pixelVars, lossVars, pathVars, readVars,
                        faultVars, extraVars>>

SetMatrix(m) ==
    /\ Alive
    /\ fDrawState' = [fDrawState EXCEPT !.viewMatrix = m]
    /\ lastGfx' = NoGfx
    /\ GfxFrame

SetRenderTarget(target) ==
    /\ Alive
    /\ fDrawState' = [fDrawState EXCEPT !.renderTarget = target]
    /\ lastGfx' = NoGfx
    /\ GfxFrame

\* setPaint as the text path reaches it (getTextTarget, prepareToDraw).
SetPaint(paint) ==
    /\ Alive
    /\ fDrawState' = setPaint(fDrawState, paint)
    /\ lastGfx' = GfxCall("setPaint", paint, <<>>, fDrawState, <<>>, "void", FALSE)
    /\ GfxFrame

\* The user of the text target disables the stages when it is done.
DisableStages ==
    /\ Alive
    /\ ~stagesDisabled(fDrawState)
    /\ fDrawState' = AutoStageDisable(fDrawState)
    /\ lastGfx' = NoGfx
    /\ GfxFrame

\* A composite call: the draw state and the record of the call after it.
Composite(op, paint, args, r) ==
    /\ fDrawState' = r.ds
    /\ lastGfx' = GfxCall(op, paint, args, fDrawState, r.ev, r.ret, FALSE)
    /\ GfxFrame

DrawRect(paint, width, matrix, e) ==
    /\ Alive
    /\ stagesDisabled(fDrawState)
    /\ fDrawState.renderTarget # NoTarget
    /\ Composite("drawRect", paint,
                 [width |-> width, matrix |-> matrix, tweakAlpha |-> e.tweakAlpha,
                  applyCoverage |-> e.applyCoverage, geoOk |-> e.geoOk],
                 drawRect(fDrawState, paint, width, matrix, e))

\* getTextTarget: prepareToDraw(&paint, DEFAULT_BUFFERING) applies the paint
\* and returns the draw buffer as the target; no guard disables the stages.
GetTextTarget(paint) ==
    /\ Alive
    /\ flushStack = <<>>
    /\ fDrawBuffer # NULL
    /\ fDrawState' = setPaint(fDrawState, paint)
    /\ fLastDrawWasBuffered' = TRUE
    /\ lastGfx' = GfxCall("getTextTarget", paint, <<>>, fDrawState, <<>>, "drawBuffer", FALSE)
    /\ UNCHANGED <<fDrawBuffer, bufCmds, liveBuf, devLog, flushStack, lastDraw>>
    /\ UNCHANGED <<cacheVars, pixelVars, lossVars, pathVars, readVars, faultVars, extraVars>>

\* GrAssert(fDrawState->stagesDisabled()) when a stage is enabled: the debug
\* build stops, the release build has no test and goes on.
AssertOutcomes == {"crash", "void"}

\* drawRect called while a stage is enabled.
DrawRectStagesEnabled(paint, width, matrix, e) ==
    /\ Alive
    /\ ~stagesDisabled(fDrawState)
    /\ fDrawState.renderTarget # NoTarget
    /\ \E outcome \in AssertOutcomes :
          IF outcome = "crash"
          THEN Composite("drawRect", paint,
                         [width |-> width, matrix |-> matrix, tweakAlpha |-> e.tweakAlpha,
                          applyCoverage |-> e.applyCoverage, geoOk |-> e.geoOk],
                         Gfx(fDrawState, <<>>, "crash"))
          ELSE Composite("drawRect", paint,
                         [width |-> width, matrix |-> matrix, tweakAlpha |-> e.tweakAlpha,
                          applyCoverage |-> e.applyCoverage, geoOk |-> e.geoOk],
                         drawRect(fDrawState, paint, width, matrix, e))

DrawRectToRect(paint, dstMatrix, e) ==
    /\ Alive
    /\ stagesDisabled(fDrawState)
    /\ fDrawState.renderTarget # NoTarget
    /\ Composite("drawRectToRect", paint, [matrix |-> dstMatrix],
                 drawRectToRect(fDrawState, paint, dstMatrix, e))

DrawVertices(paint, hasAttrs, e) ==
    /\ Alive
    /\ stagesDisabled(fDrawState)
    /\ fDrawState.renderTarget # NoTarget
    /\ Composite("drawVertices", paint, [hasAttrs |-> hasAttrs],
                 drawVertices(fDrawState, paint, hasAttrs, e))

\* Without a render target only the fast path is entered: it returns early.
DrawOval(paint, circle, strokeWidth, e) ==
    /\ Alive
    /\ stagesDisabled(fDrawState)
    /\ \/ fDrawState.renderTarget # NoTarget
       \/ ~OvalFallsBack(fDrawState.viewMatrix, paint, circle, strokeWidth)
    /\ Composite("drawOval", paint,
                 [circle |-> circle, width |-> strokeWidth],
                 drawOval(fDrawState, paint, circle, strokeWidth, e))

DrawPath(paint, kind, circle, fill, e) ==
    /\ Alive
    /\ stagesDisabled(fDrawState)
    /\ fDrawState.renderTarget # NoTarget
    /\ Composite("drawPath", paint,
                 [kind |-> kind, circle |-> circle, fill |-> fill],
                 drawPath(fDrawState, paint, kind, circle, fill, e))

DrawPaint(paint, e) ==
    /\ Alive
    /\ stagesDisabled(fDrawState)
    /\ fDrawState.renderTarget # NoTarget
    /\ Composite("drawPaint", paint, <<>>, drawPaint(fDrawState, paint, e))

\* A call that draws into scratch textures.
ScratchComposite(op, e, r) ==
    /\ fDrawState' = r.ds
    /\ lastGfx' = GfxCall(op, NoPaint, [e |-> e], fDrawState, r.ev, r.ret, r.nullUsed)
    /\ GfxFrame

GaussianBlur(e, onNull) ==
    /\ Alive
    /\ stagesDisabled(fDrawState)
    /\ ScratchComposite("gaussianBlur", e, gaussianBlur(fDrawState, e, onNull))

ApplyMorphology(e, onNull) ==
    /\ Alive
    /\ stagesDisabled(fDrawState)
    /\ ScratchComposite("applyMorphology", e, applyMorphology(fDrawState, e, onNull))


(***************************************************************************)
(* The passes of gaussianBlur and applyMorphology one by one: the texture  *)
(* each pass samples, the texture it renders into, and the clears between  *)
(* them.  The scratch textures are there; the source is "src", the scratch *)
(* textures are "temp1" and "temp2".                                       *)
(*   scaleX, scaleY  the scale factors adjust_sigma gives (1 when the      *)
(*                   sigma is at most MAX_BLUR_SIGMA)                      *)
(*   sigmaX, sigmaY  the sigma is positive                                 *)
(***************************************************************************)
ScaleFactors == {1, 2, 4}

BlurPassEnvs ==
    {e \in [canClobberSrc : BOOLEAN, scaleX : ScaleFactors, scaleY : ScaleFactors,
            sigmaX : BOOLEAN, sigmaY : BOOLEAN] :
        /\ e.scaleX > 1 => e.sigmaX
        /\ e.scaleY > 1 => e.sigmaY}

MorphPassEnvs == [radiusW : BOOLEAN, radiusH : BOOLEAN]

\* A pass samples src and renders into rt; a clear works on rt.
PassEvent(kind, src, rt, empty) == [kind |-> kind, src |-> src, rt |-> rt, empty |-> empty]

\* The pointers of a run, the render target set, and the events so far.
Pointers(src, dst, temp, rt, ev) ==
    [src |-> src, dst |-> dst, temp |-> temp, rt |-> rt, ev |-> ev]

\* SkTSwap(dstTexture, tempTexture) left out: the next pass renders into the same texture.
NextDst_NoSwap(dst, temp) == dst

\* SkTSwap(dstTexture, tempTexture): the texture the next pass renders into.
NextDst(dst, temp) == temp

\* A clear that works on the texture the next pass renders into.
ClearTarget_Dst(p) == p.dst

\* this->clear(&clearRect, 0x0): on the render target that is set.
ClearTarget(p) == p.rt

\* setRenderTarget(dstTexture->asRenderTarget()), the draw that samples
\* srcTexture, srcTexture = dstTexture, SkTSwap(dstTexture, tempTexture).
TexturePass(p, kind) ==
    Pointers(p.dst, NextDst(p.dst, p.temp),
             IF NextDst(p.dst, p.temp) = p.temp THEN p.dst ELSE p.temp,
             asRenderTarget(p.dst),
             Append(p.ev, PassEvent(kind, p.src, asRenderTarget(p.dst), FALSE)))

BoundaryClear(p, empty) ==
    [p EXCEPT !.ev = Append(@, PassEvent("clear", NoTexture, ClearTarget(p), empty))]

\* for (int i = 1; i < scaleFactorX || i < scaleFactorY; i *= 2)
RECURSIVE DownSample(_, _, _)
DownSample(p, i, e) ==
    IF i < e.scaleX \/ i < e.scaleY
    THEN DownSample(TexturePass(p, "down"), 2 * i, e)
    ELSE p

\* gaussianBlur from the render target old: the events and the texture returned.
blurPasses(old, e) ==
    LET p0 == Pointers("src", "temp1", IF e.canClobberSrc THEN "src" ELSE "temp2", old, <<>>)
        p1 == DownSample(p0, 1, e)
        p2 == IF e.sigmaX
              THEN TexturePass(IF e.scaleX > 1 THEN BoundaryClear(p1, FALSE) ELSE p1, "convX")
              ELSE p1
        p3 == IF e.sigmaY
              THEN TexturePass(IF e.scaleY > 1 \/ e.sigmaX THEN BoundaryClear(p2, FALSE)
                               ELSE p2, "convY")
              ELSE p2
        p4 == IF e.scaleX > 1 \/ e.scaleY > 1
              THEN TexturePass(BoundaryClear(BoundaryClear(p3, FALSE), FALSE), "up")
              ELSE p3
    IN  [ev |-> p4.ev, ret |-> p4.src]

\* applyMorphology: each pass renders into a scratch texture of its own; the
\* clear after the first pass has the height radius.fHeight.
morphPasses(old, e) ==
    LET p0 == Pointers("src", "temp1", "temp2", old, <<>>)
        p1 == IF e.radiusW
              THEN BoundaryClear(TexturePass(p0, "morphX"), ~e.radiusH)
              ELSE p0
        p2 == IF e.radiusH
              THEN TexturePass([p1 EXCEPT !.dst = IF e.radiusW THEN "temp2" ELSE "temp1"],
                               "morphY")
              ELSE p1
    IN  [ev |-> p2.ev, ret |-> p2.src]

Blur(op, e, ev, ret) == [op |-> op, e |-> e, ev |-> ev, ret |-> ret]

NoBlur == Blur("none", [radiusW |-> FALSE, radiusH |-> FALSE], <<>>, "src")

\* The call as the draw state sees it.
BlurEnvOf(e) ==
    [canClobberSrc |-> e.canClobberSrc, down |-> (e.scaleX > 1 \/ e.scaleY > 1),
     sigmaX |-> e.sigmaX, sigmaY |-> e.sigmaY, temp1Ok |-> TRUE, temp2Ok |-> TRUE]

MorphEnvOf(e) ==
    [radiusW |-> e.radiusW, radiusH |-> e.radiusH, ast1Ok |-> TRUE, ast2Ok |-> TRUE]

PassesFrame ==
    UNCHANGED <<cacheVars, drawVars, pixelVars, lossVars, pathVars, readVars, faultVars,
                lastResize, pixelNest, lastTeardown>>

GaussianBlurPasses(e) ==
    /\ Alive
    /\ stagesDisabled(fDrawState)
    /\ \E r \in {gaussianBlur(fDrawState, BlurEnvOf(e), "crash")},
          t \in {blurPasses(fDrawState.renderTarget, e)} :
          /\ fDrawState' = r.ds
          /\ lastGfx' = GfxCall("gaussianBlur", NoPaint, [e |-> BlurEnvOf(e)], fDrawState,
                                r.ev, r.ret, r.nullUsed)
          /\ lastBlur' = Blur("gaussianBlur", e, t.ev, t.ret)
    /\ PassesFrame

ApplyMorphologyPasses(e) ==
    /\ Alive
    /\ stagesDisabled(fDrawState)
    /\ \E r \in {applyMorphology(fDrawState, MorphEnvOf(e), "crash")},
          t \in {morphPasses(fDrawState.renderTarget, e)} :
          /\ fDrawState' = r.ds
          /\ lastGfx' = GfxCall("applyMorphology", NoPaint, [e |-> MorphEnvOf(e)],
                                fDrawState, r.ev, r.ret, r.nullUsed)
          /\ lastBlur' = Blur("applyMorphology", e, t.ev, t.ret)
    /\ PassesFrame


(***************************************************************************)
(* GrContext::freeGpuResources and GrContext::~GrContext: the flush, then   *)
(* the device and the caches.  The steps are kept in the order the code    *)
(* takes them and are run one after the other on                           *)
(*   log, cmds   the device log and the commands recorded                  *)
(*   c           the cache                                                 *)
(*   atDevice    the commands recorded when the device lets go of its      *)
(*               resources                                                 *)
(*   atCache     the commands recorded when the cache is emptied           *)
(***************************************************************************)
freeGpuResources ==
    <<"flush", "purgeResources", "resetAARectRenderer", "removeAll", "freeAll",
      "dropPathRenderers">>

destructor ==
    <<"flush", "purgeResources", "deleteTextureCache", "deleteFontCache",
      "deleteDrawBuffer", "deletePools", "unrefMembers">>

\* A flush that replays nothing and keeps the commands.
FlushPending_Skip(st) == st

\* this->flush(): the recorded commands go to the device, the buffer is reset.
FlushPending(st) == [st EXCEPT !.log = ExecAll(st.log, st.cmds), !.cmds = <<>>]

EmptyCache == [tex |-> [t \in TexIds |-> NoTex], lru |-> <<>>]

TeardownStep(st, step) ==
    CASE step = "flush" -> FlushPending(st)
      [] step \in {"purgeResources", "abandonResources"} -> [st EXCEPT !.atDevice = st.cmds]
      [] step \in {"removeAll", "deleteTextureCache"} ->
             [st EXCEPT !.atCache = st.cmds, !.c = EmptyCache]
      [] step = "deleteDrawBuffer" -> [st EXCEPT !.cmds = <<>>]
      [] OTHER -> st

RECURSIVE RunSteps(_, _)
RunSteps(steps, st) ==
    IF steps = <<>> THEN st ELSE RunSteps(Tail(steps), TeardownStep(st, Head(steps)))

Teardown(op, steps, pending, logBefore, entries, atDevice, atCache) ==
    [op |-> op, steps |-> steps, pending |-> pending, logBefore |-> logBefore,
     entries |-> entries, atDevice |-> atDevice, atCache |-> atCache]

NoTeardown == Teardown("none", <<>>, <<>>, <<>>, 0, <<>>, <<>>)

\* The context object is there: its destructor has not run.
Constructed == lastTeardown.op # "destructor"

TeardownCall(op, steps) ==
    /\ Constructed
    /\ flushStack = <<>>
    /\ fDrawBuffer # NULL
    /\ \E r \in {RunSteps(steps, [log |-> devLog, cmds |-> bufCmds,
                                   c |-> [tex |-> tex, lru |-> lru],
                                   atDevice |-> <<>>, atCache |-> <<>>])} :
          /\ tex' = r.c.tex
          /\ lru' = r.c.lru
          /\ devLog' = r.log
          /\ bufCmds' = r.cmds
          /\ lastTeardown' = Teardown(op, steps, bufCmds, devLog, Len(lru),
                                      r.atDevice, r.atCache)
    /\ fDrawBuffer' = IF op = "destructor" THEN NULL ELSE fDrawBuffer
    /\ lastDraw' = Draw(op, FALSE, fLastDrawWasBuffered, NoCmd, bufCmds, devLog, 1, TRUE)
    /\ pathR' = Renderers(FALSE, NULL, pathR.made, NoLookup)
    /\ UNCHANGED <<fMaxCount, fMaxBytes, lastCall, liveBuf, fLastDrawWasBuffered, flushStack>>
    /\ UNCHANGED <<pixelOp, gfxVars, lossVars, readVars, faultVars, lastResize, lastBlur,
                   pixelNest>>

FreeGpuResources == TeardownCall("freeGpuResources", freeGpuResources)

Destructor == TeardownCall("destructor", destructor)

(***************************************************************************)
(* The state after GrContext::GrContext.                                   *)
(***************************************************************************)
Init ==
    /\ tex = [t \in TexIds |-> NoTex]
    /\ lru = <<>>
    /\ fMaxCount = MAX_TEXTURE_CACHE_COUNT
    /\ fMaxBytes = MAX_TEXTURE_CACHE_BYTES
    /\ lastCall = NoCall
    /\ fDrawBuffer = 1
    /\ liveBuf = 1
    /\ bufCmds = <<>>
    /\ fLastDrawWasBuffered = FALSE
    /\ devLog = <<>>
    /\ flushStack = <<>>
    /\ lastDraw = NoDraw
    /\ pixelOp = NoPixelCall
    /\ fDrawState = NewDrawState
    /\ lastGfx = NoGfx
    /\ lossSteps = <<>>
    /\ pathR = NoRenderers
    /\ lastRead = NoRead
    /\ fault = NoFault
    /\ lastResize = NoResize
    /\ lastBlur = NoBlur
    /\ pixelNest = NoNest
    /\ lastTeardown = NoTeardown

LockScratchStep == \E r \in Requests : LockScratchTexture(r[1], r[2])

UnlockTextureStep == \E t \in TexIds : UnlockTexture(t)

SetLimitsStep == \E l \in LimitChoices : SetTextureCacheLimits(l[1], l[2])

NextCache == LockScratchStep \/ UnlockTextureStep

SpecCache == Init /\ [][NextCache]_vars

CreateTextureStep == \E desc \in TexDescs : CreateAndLockTexture(desc)

FindTextureStep == \E desc \in TexDescs : FindAndLockTexture(desc)

\* Clients that create, find and release their own textures under limits they set.
NextBudget == CreateTextureStep \/ FindTextureStep \/ UnlockTextureStep \/ SetLimitsStep

SpecBudget == Init /\ [][NextBudget]_vars

\* Clients that hold scratch textures and textures of their own side by side.
NextRelease == LockScratchStep \/ CreateTextureStep \/ FindTextureStep \/ UnlockTextureStep

SpecRelease == Init /\ [][NextRelease]_vars

\* Descriptors asked for both as scratch textures and as textures of the client.
AliasDescs == {GrTextureDesc(256, 256, TRUE, FALSE), GrTextureDesc(512, 256, TRUE, FALSE)}

AliasScratchStep ==
    \E desc \in AliasDescs, match \in ScratchTexMatch : LockScratchTexture(desc, match)

AliasCreateStep == \E desc \in AliasDescs : CreateAndLockTexture(desc)

AliasFindStep == \E desc \in AliasDescs : FindAndLockTexture(desc)

\* Clients that ask for the same descriptors in both ways.
NextAlias == AliasScratchStep \/ AliasCreateStep \/ AliasFindStep \/ UnlockTextureStep

SpecAlias == Init /\ [][NextAlias]_vars

DrawStep == \E cmd \in Cmds, buffered \in BOOLEAN : DrawCall(cmd, buffered)

FlushStep == \E discard \in BOOLEAN : Flush(discard)

NextDraw == DrawStep \/ FlushStep \/ ReplayCommand \/ ReentrantFlush \/ FlushEnd \/ ContextLost

SpecDraw == Init /\ [][NextDraw]_vars

\* flushTo is a loop that runs to its end: the replay goes on and returns.
SpecDrawFair == SpecDraw /\ WF_vars(ReplayCommand) /\ WF_vars(FlushEnd)

PixelOpStep ==
    \E name \in PixelOpNames, flags \in PixelOpsFlags : PixelOp(name, flags)

\* The draws made between pixel operations: one command, buffered or not.
PixelDrawStep == \E buffered \in BOOLEAN : DrawCall("A", buffered)

NextPixel == PixelDrawStep \/ PixelOpStep \/ ReplayCommand \/ ReentrantWritePixels \/ FlushEnd

SpecPixel == Init /\ [][NextPixel]_vars

\* The pixel operations over every combination of flags and of what they meet.
PixelOpOutcomeStep ==
    \E name \in PixelOpNames, flags \in PixelOpsFlags, e \in PixelEnvs :
        PixelOpOutcome(name, e, flags)

NextNest == PixelOpOutcomeStep

SpecNest == Init /\ [][NextNest]_vars

SetMatrixStep == \E m \in Matrices : SetMatrix(m)

SetRenderTargetStep == \E target \in RenderTargets \cup {NoTarget} : SetRenderTarget(target)

\* The inputs of the specification of the composite calls.
GfxMatrices == {MatrixI, MatrixSkew, MatrixZero, MatrixPersp}
GfxTargets == {NoTarget, "rtPlain"}
GfxPaints == {p \in Paints : p.fColor = 1}
GfxEnvsFew ==
    {e \in GfxEnvs : e.tweakAlpha /\ e.applyCoverage /\ ~e.hwAALines /\ ~e.intRect
                      /\ e.staticVB}
GfxLocalMatrices == {NoMatrix, <<MatrixScaleXY>>}
BlurEnvsFew == {e \in BlurEnvs : e.sigmaX}

GfxSetMatrixStep == \E m \in GfxMatrices : SetMatrix(m)

GfxSetRenderTargetStep == \E target \in GfxTargets : SetRenderTarget(target)

SetPaintStep == \E paint \in Paints : SetPaint(paint)

GfxDrawRectStep ==
    \E paint \in GfxPaints, width \in {-1, 1}, matrix \in GfxLocalMatrices,
       e \in GfxEnvsFew :
        DrawRect(paint, width, matrix, e)

DrawRectToRectStep ==
    \E paint \in GfxPaints, matrix \in GfxLocalMatrices, e \in GfxEnvsFew :
        DrawRectToRect(paint, matrix, e)

DrawVerticesStep ==
    \E paint \in GfxPaints, hasAttrs \in BOOLEAN, e \in GfxEnvsFew :
        DrawVertices(paint, hasAttrs, e)

GfxDrawOvalStep ==
    \E paint \in GfxPaints, circle \in BOOLEAN, width \in OvalWidths, e \in GfxEnvsFew :
        DrawOval(paint, circle, width, e)

DrawPathStep ==
    \E paint \in GfxPaints, kind \in PathKinds, fill \in PathFills, e \in GfxEnvsFew :
        DrawPath(paint, kind, TRUE, fill, e)

DrawPaintStep == \E paint \in GfxPaints, e \in GfxEnvsFew : DrawPaint(paint, e)

GaussianBlurStep == \E e \in BlurEnvsFew, onNull \in NullOutcomes : GaussianBlur(e, onNull)

ApplyMorphologyStep ==
    \E e \in MorphEnvs, onNull \in NullOutcomes : ApplyMorphology(e, onNull)

NextGfx ==
    \/ GfxSetMatrixStep \/ GfxSetRenderTargetStep \/ SetPaintStep \/ DisableStages
    \/ GfxDrawRectStep \/ DrawRectToRectStep \/ DrawVerticesStep \/ GfxDrawOvalStep
    \/ DrawPathStep \/ DrawPaintStep \/ GaussianBlurStep \/ ApplyMorphologyStep

SpecGfx == Init /\ [][NextGfx]_vars

\* The inputs of the specification of drawOval.
OvalDrawStep ==
    \E paint \in Paints, circle \in BOOLEAN, width \in OvalWidths, e \in GfxEnvsFew :
        DrawOval(paint, circle, width, e)

NextOval == SetMatrixStep \/ SetRenderTargetStep \/ OvalDrawStep

SpecOval == Init /\ [][NextOval]_vars

\* The inputs of the specification of drawRect.
RectMatrices == {MatrixI, MatrixRot90, MatrixSkew, MatrixPersp}
RectPaints == {GrPaint(1, aa, FALSE) : aa \in BOOLEAN}

RectSetMatrixStep == \E m \in RectMatrices : SetMatrix(m)

RectDrawStep ==
    \E paint \in RectPaints, width \in StrokeWidths, matrix \in LocalMatrices,
       e \in GfxEnvs :
        DrawRect(paint, width, matrix, e)

NextRect == RectSetMatrixStep \/ SetRenderTargetStep \/ RectDrawStep

SpecRect == Init /\ [][NextRect]_vars

\* The specification of context loss: commands recorded before the loss are
\* "A", commands recorded after it are "B".
LossDrawStep ==
    \E buffered \in BOOLEAN : DrawCall(IF liveBuf = 1 THEN "A" ELSE "B", buffered)

LossFlushStep == Flush(FALSE)

NextLoss ==
    \/ LossDrawStep \/ LossFlushStep \/ ReplayCommand \/ FlushEnd \/ ContextLost
    \/ CreateTextureStep \/ UnlockTextureStep

SpecLoss == Init /\ [][NextLoss]_vars

\* The descriptors of textures that need resizing.
ResizeDescs == {GrTextureDesc(100, 100, FALSE, FALSE), GrTextureDesc(300, 100, FALSE, FALSE)}

CreateResizedStep ==
    \E desc \in ResizeDescs, rtOk \in BOOLEAN, geoOk \in BOOLEAN :
        CreateAndLockResized(desc, rtOk, geoOk)

ResizeFindStep == \E desc \in ResizeDescs : FindAndLockTexture(desc)

\* Clients that draw and create tiled textures of sizes that are no power of two.
NextResize ==
    \/ CreateResizedStep \/ ResizeFindStep \/ UnlockTextureStep
    \/ PixelDrawStep \/ ReplayCommand \/ FlushEnd

SpecResize == Init /\ [][NextResize]_vars

GaussianBlurPassesStep == \E e \in BlurPassEnvs : GaussianBlurPasses(e)

ApplyMorphologyPassesStep == \E e \in MorphPassEnvs : ApplyMorphologyPasses(e)

\* Clients that blur, dilate and erode into the render targets they set.
NextBlur ==
    \/ GaussianBlurPassesStep \/ ApplyMorphologyPassesStep \/ SetRenderTargetStep

SpecBlur == Init /\ [][NextBlur]_vars

\* Clients that draw, create textures and then free the resources, lose the
\* context or delete it.
TeardownDrawStep == Constructed /\ \E buffered \in BOOLEAN : DrawCall("A", buffered)

TeardownCreateStep == Constructed /\ CreateTextureStep

TeardownLossStep == Constructed /\ (ContextDestroyed \/ ContextLost)

NextTeardown ==
    \/ TeardownDrawStep \/ TeardownCreateStep \/ TeardownLossStep
    \/ ReplayCommand \/ FlushEnd \/ FreeGpuResources \/ Destructor

SpecTeardown == Init /\ [][NextTeardown]_vars

\* A client that draws text through the text target between other draws.
GetTextTargetStep == \E paint \in Paints : GetTextTarget(paint)

TextDrawRectStep ==
    \E paint \in GfxPaints, width \in {-1, 1}, matrix \in GfxLocalMatrices,
       e \in GfxEnvsFew :
        DrawRect(paint, width, matrix, e) \/ DrawRectStagesEnabled(paint, width, matrix, e)

NextText ==
    \/ GfxSetMatrixStep \/ GfxSetRenderTargetStep \/ GetTextTargetStep \/ DisableStages
    \/ TextDrawRectStep \/ GfxDrawOvalStep \/ DrawPaintStep

SpecText == Init /\ [][NextText]_vars

\* A client that may call contextDestroyed on its own and go on drawing.
DestroyedDrawStep ==
    /\ Running
    /\ \E buffered \in BOOLEAN : DrawCall("A", buffered) \/ DrawCallNoBuffer("A", buffered)

DestroyedFlushStep ==
    /\ Running
    /\ \E discard \in BOOLEAN : Flush(discard) \/ FlushNoBuffer(discard)

DestroyedLossStep == Running /\ (ContextDestroyed \/ ContextLost)

NextDestroyed ==
    \/ DestroyedDrawStep \/ DestroyedFlushStep \/ DestroyedLossStep
    \/ ReplayCommand \/ ReentrantFlush \/ FlushEnd

SpecDestroyed == Init /\ [][NextDestroyed]_vars

GetPathRendererStep ==
    \E qualifies \in BOOLEAN, allowSW \in BOOLEAN : GetPathRenderer(qualifies, allowSW)

PathRendererDrawStep == \E qualifies \in BOOLEAN : PathRendererDraw(qualifies)

NextPath == GetPathRendererStep \/ PathRendererDrawStep \/ LossDrawStep \/ ContextLost

SpecPath == Init /\ [][NextPath]_vars

ReadStep == \E e \in ReadEnvs, flags \in PixelOpsFlags : ReadRenderTargetPixels(e, flags)

NextRead == ReadStep

SpecRead == Init /\ [][NextRead]_vars

(***************************************************************************)
(* Properties of the scratch allocator, checked under SpecCache.           *)
(***************************************************************************)
\* A step that is a lockScratchTexture call.
IsLockStep ==
    /\ lastCall'.op = "lockScratchTexture"
    /\ (lastCall' # lastCall \/ tex' # tex)

\* A lockScratchTexture call has returned a texture it found in the cache.
IsHit == lastCall.op = "lockScratchTexture" /\ lastCall.result # NULL /\ lastCall.created = <<>>

\* The descriptors of one size that the search probes: as requested, with the
\* render-target flag added, with the no-stencil flag dropped.
FlagProbes(w, h, rt, ns) ==
    <<GrTextureDesc(w, h, rt, ns)>>
    \o (IF ~rt THEN <<GrTextureDesc(w, h, TRUE, ns)>> ELSE <<>>)
    \o (IF ns THEN <<GrTextureDesc(w, h, TRUE, FALSE)>> ELSE <<>>)

\* The powers of two up to 4096.
Pow2s == {2 ^ k : k \in 0..12}

\* p is the least power of two that is at least n and at least MIN_SIZE.
IsBinOf(p, n) ==
    /\ p \in Pow2s /\ p >= n /\ p >= MIN_SIZE
    /\ \A q \in Pow2s : (q >= n /\ q >= MIN_SIZE) => p <= q

\* Every descriptor an Approximate search may probe, in the order of the
\* relaxation: the flags, then the width doubled, then the height doubled.
ExpectedProbes(inDesc, match) ==
    IF match = kExact_ScratchTexMatch THEN <<inDesc>>
    ELSE LET w == CHOOSE p \in Pow2s : IsBinOf(p, inDesc.fWidth)
             h == CHOOSE p \in Pow2s : IsBinOf(p, inDesc.fHeight)
         IN FlagProbes(w, h, inDesc.rt, inDesc.ns)
            \o FlagProbes(2 * w, h, inDesc.rt, inDesc.ns)
            \o FlagProbes(w, 2 * h, inDesc.rt, inDesc.ns)

IndexOf(seq, x) == CHOOSE i \in 1..Len(seq) : seq[i] = x /\ \A j \in 1..(i - 1) : seq[j] # x

InSeq(seq, x) == \E i \in 1..Len(seq) : seq[i] = x

\* C1: a texture returned by lockScratchTexture is detached from the cache, and
\* a scratch texture that is checked out (locked, not yet released through
\* unlockTexture) is never returned by a later lockScratchTexture call.
C1_ScratchExclusive ==
    [][(IsLockStep /\ lastCall'.result # NULL) =>
          /\ tex'[lastCall'.result].state = "Detached"
          /\ tex[lastCall'.result].locks = 0]_vars

\* C1 witness: a second call with the descriptor of a texture still checked
\* out has returned another texture with the same key.
C1_Witness ==
    /\ lastCall.op = "lockScratchTexture" /\ lastCall.result # NULL
    /\ \E t \in TexIds \ {lastCall.result} :
          /\ tex[t].state = "Detached" /\ tex[t].locks > 0
          /\ tex[t].key = tex[lastCall.result].key

\* The lockScratchTexture call that directly follows the release of scratch
\* texture t, with a descriptor whose probes include t's descriptor.
ReuseStep(t) ==
    /\ lastCall.op = "unlockTexture" /\ lastCall.result = t
    /\ IsScratchTexture(tex[t].key) /\ tex[t].locks = 0
    /\ IsLockStep
    /\ InSeq(ExpectedProbes(lastCall'.inDesc, lastCall'.match), tex[t].desc)

\* No other attached texture matches the probe that finds t or an earlier one.
FirstCandidate(t, probes) ==
    \A u \in Attached([tex |-> tex, lru |-> lru]) \ {t} :
        ~(InSeq(probes, tex[u].desc) /\ IndexOf(probes, tex[u].desc) <= IndexOf(probes, tex[t].desc))

\* No other attached texture has t's key.
UniqueKey(t) == Matches([tex |-> tex, lru |-> lru], tex[t].key) = {t}

\* C2 as stated: the lockScratchTexture call that follows the full release of a
\* scratch texture, with the same or a relaxation-compatible descriptor,
\* returns that same texture and does not call createTexture.  (Stated for a
\* released texture that is the only attached one with its key, so that the
\* order in which the cache returns entries of one key plays no part.)
C2_Original ==
    [][\A t \in TexIds : (ReuseStep(t) /\ UniqueKey(t)) =>
          (lastCall'.result = t /\ lastCall'.created = <<>>)]_vars

\* C2 amended: that call does not call createTexture and returns a texture
\* that was attached to the cache; it returns the released texture whenever no
\* other attached texture matches the probe that finds it or an earlier probe.
C2_ScratchReuse ==
    [][\A t \in TexIds : ReuseStep(t) =>
          /\ lastCall'.created = <<>>
          /\ lastCall'.result # NULL
          /\ tex[lastCall'.result].state = "Attached"
          /\ (FirstCandidate(t, ExpectedProbes(lastCall'.inDesc, lastCall'.match))
                => lastCall'.result = t)]_vars

\* C2 witness: a released texture has been found again through a relaxed probe.
C2_Witness == IsHit /\ Len(lastCall.probes) > 1 /\ tex[lastCall.result].locks = 1

\* C3: in Approximate mode the probes follow the fixed relaxation order (add
\* the render-target flag, drop the no-stencil flag, double the width, double
\* the height), createTexture is called only after all of them missed, and
\* the search stops at the first probe that hits.
C3_RelaxationOrder ==
    (lastCall.op = "lockScratchTexture" /\ lastCall.match = kApprox_ScratchTexMatch) =>
        LET exp == ExpectedProbes(lastCall.inDesc, lastCall.match)
            n == Len(lastCall.probes)
        IN /\ n >= 1 /\ n <= Len(exp)
           /\ lastCall.probes = SubSeq(exp, 1, n)
           /\ (lastCall.created # <<>> => lastCall.probes = exp)
           /\ (lastCall.created = <<>> =>
                 /\ lastCall.result # NULL
                 /\ tex[lastCall.result].desc = lastCall.probes[n]
                 /\ \A i \in 1..(n - 1) :
                       /\ lastCall.probes[i] # lastCall.probes[n]
                       /\ ~ScratchHit([tex |-> tex, lru |-> lru], lastCall.probes[i]))

\* C3 witness: an Approximate search has hit at the height-doubling stage,
\* after the flag probes and the width-doubling probes missed.
C3_Witness ==
    /\ IsHit /\ lastCall.match = kApprox_ScratchTexMatch
    /\ lastCall.probes[Len(lastCall.probes)].fHeight = 2 * lastCall.probes[1].fHeight
    /\ Len(lastCall.probes) >= 7

\* C4: in Exact mode there is exactly one lookup, with the unmodified input
\* descriptor; a miss goes to device allocation without relaxation.
C4_ExactSingleLookup ==
    (lastCall.op = "lockScratchTexture" /\ lastCall.match = kExact_ScratchTexMatch) =>
        /\ lastCall.probes = <<lastCall.inDesc>>
        /\ (lastCall.created = <<>> =>
              lastCall.result # NULL /\ tex[lastCall.result].desc = lastCall.inDesc)
        /\ (lastCall.created # <<>> => lastCall.created = <<lastCall.inDesc>>)

\* C4 witness: an Exact call has missed while a texture that an Approximate
\* call with the same descriptor would have found is attached.
C4_Witness ==
    /\ lastCall.op = "lockScratchTexture" /\ lastCall.match = kExact_ScratchTexMatch
    /\ lastCall.created # <<>>
    /\ \E u \in Attached([tex |-> tex, lru |-> lru]) :
          InSeq(ExpectedProbes(lastCall.inDesc, kApprox_ScratchTexMatch), tex[u].desc)

\* C5: when every lookup missed, the device is asked for the unrelaxed
\* descriptor (the one of the first lookup, with the caller's flags), and the
\* new texture is registered under the key of its own descriptor and returned.
C5_AllocUnrelaxed ==
    (lastCall.op = "lockScratchTexture" /\ lastCall.created # <<>>) =>
        /\ lastCall.created = <<lastCall.probes[1]>>
        /\ lastCall.created[1].rt = lastCall.inDesc.rt
        /\ lastCall.created[1].ns = lastCall.inDesc.ns
        /\ (lastCall.result # NULL =>
              /\ tex[lastCall.result].desc = lastCall.created[1]
              /\ tex[lastCall.result].key = ComputeKey(lastCall.created[1], TRUE)
              /\ tex[lastCall.result].locks = 1)

\* C5 witness: a texture has been created after a search that relaxed the
\* flags and doubled both dimensions.
C5_Witness ==
    /\ lastCall.op = "lockScratchTexture" /\ lastCall.created # <<>>
    /\ lastCall.result # NULL
    /\ Len(lastCall.probes) = 9

\* C6: in Approximate mode the first lookup uses the requested width and
\* height each rounded up to a power of two and raised to at least 256; in
\* Exact mode it uses the requested dimensions.
C6_FirstLookupSize ==
    lastCall.op = "lockScratchTexture" =>
        IF lastCall.match = kApprox_ScratchTexMatch
        THEN /\ IsBinOf(lastCall.probes[1].fWidth, lastCall.inDesc.fWidth)
             /\ IsBinOf(lastCall.probes[1].fHeight, lastCall.inDesc.fHeight)
        ELSE /\ lastCall.probes[1].fWidth = lastCall.inDesc.fWidth
             /\ lastCall.probes[1].fHeight = lastCall.inDesc.fHeight

\* C6 witness: an Approximate call has rounded one dimension up to 512 and
\* raised the other to the minimum.
C6_Witness ==
    /\ lastCall.op = "lockScratchTexture" /\ lastCall.match = kApprox_ScratchTexMatch
    /\ lastCall.inDesc.fWidth = 300 /\ lastCall.probes[1].fWidth = 512
    /\ lastCall.inDesc.fHeight = 100 /\ lastCall.probes[1].fHeight = 256

(***************************************************************************)
(* Properties of the draw buffer, checked under SpecDraw.                  *)
(***************************************************************************)
\* The last public call was a draw that switched from buffered to unbuffered.
IsSwitchToUnbuffered ==
    lastDraw.op = "draw" /\ ~lastDraw.buffered /\ lastDraw.wasBuffered

\* C7: an unbuffered prepareToDraw after a buffered one flushes the draw buffer
\* exactly once before the device is used: when the call has returned, the
\* device has executed every command that was recorded, and after them the
\* unbuffered command.
C7_FlushOnSwitch ==
    (IsSwitchToUnbuffered /\ lastDraw.done) =>
        /\ lastDraw.flushes = 1
        /\ devLog = ExecAll(lastDraw.logBefore, lastDraw.pending \o <<lastDraw.cmd>>)
        /\ bufCmds = <<>>
        /\ ~fLastDrawWasBuffered

\* C7 witness: two recorded commands were flushed ahead of an unbuffered draw.
C7_Witness == IsSwitchToUnbuffered /\ lastDraw.done /\ Len(lastDraw.pending) = 2

\* C8: prepareToDraw starts no flush for a buffered request, nor for an
\* unbuffered request after an unbuffered draw: the recorded commands stay in
\* the buffer and the device sees at most the unbuffered command itself.  A
\* flush inside prepareToDraw means a buffered-to-unbuffered switch.
C8_NoFlushOtherwise ==
    lastDraw.op = "draw" =>
        /\ (lastDraw.flushes > 0 => IsSwitchToUnbuffered)
        /\ (~IsSwitchToUnbuffered =>
              /\ lastDraw.flushes = 0 /\ lastDraw.done /\ flushStack = <<>>
              /\ IF lastDraw.buffered
                 THEN /\ bufCmds = Append(lastDraw.pending, lastDraw.cmd)
                      /\ devLog = lastDraw.logBefore
                 ELSE /\ bufCmds = lastDraw.pending
                      /\ devLog = DeviceExec(lastDraw.logBefore, lastDraw.cmd))

\* C8 witness: a buffered draw right after an unbuffered one was recorded
\* without a flush.
C8_Witness ==
    /\ lastDraw.op = "draw" /\ lastDraw.buffered /\ ~lastDraw.wasBuffered
    /\ lastDraw.logBefore # <<>> /\ bufCmds = <<lastDraw.cmd>>

\* The commands that a call that flushes sends to the device after the replay.
CallTail == IF lastDraw.op = "draw" /\ ~lastDraw.buffered THEN <<lastDraw.cmd>> ELSE <<>>

\* C9: a flush replays the recorded commands to the device in the order in
\* which they were recorded, none dropped, duplicated or reordered, and the
\* buffer is empty after the flush.
C9_ReplayFIFO ==
    /\ (flushStack # <<>> =>
          /\ Top.pos <= Len(lastDraw.pending) + 1
          /\ devLog = ExecAll(lastDraw.logBefore, SubSeq(lastDraw.pending, 1, Top.pos - 1)))
    /\ ((lastDraw.flushes > 0 /\ lastDraw.done) =>
          /\ devLog = ExecAll(lastDraw.logBefore, lastDraw.pending \o CallTail)
          /\ bufCmds = (IF lastDraw.op = "draw" /\ lastDraw.buffered
                        THEN <<lastDraw.cmd>> ELSE <<>>))

\* C9 witness: a flush has replayed two different commands.
C9_Witness ==
    /\ lastDraw.op = "flush" /\ lastDraw.flushes > 0 /\ lastDraw.done
    /\ lastDraw.pending = <<"B", "A">>

\* The replay in progress is the only one, and it holds the buffer.
FlushDetached ==
    /\ Len(flushStack) <= 1
    /\ lastDraw.flushes <= 1
    /\ (flushStack # <<>> => fDrawBuffer = NULL /\ Top.temp = liveBuf)
    /\ (flushStack = <<>> => fDrawBuffer = liveBuf)

\* C10: while flushDrawBuffer replays the buffer, fDrawBuffer is unset, so a
\* flush requested from inside the replay starts no second replay; the flush
\* therefore returns, and fDrawBuffer is then the same buffer again.
C10_FlushNotReentered ==
    /\ []FlushDetached
    /\ (flushStack # <<>>) ~> (flushStack = <<>> /\ fDrawBuffer = liveBuf)

\* C10 witness: a flush was requested from inside a replay, between two
\* commands, and the replay is still the only one.
C10_Witness ==
    /\ flushStack # <<>> /\ Top.reentered > 0
    /\ Top.pos = 2 /\ Len(bufCmds) = 2
    /\ fDrawBuffer = NULL

\* C11: flush with the Discard bit resets the draw buffer without replaying it:
\* the device executes nothing, the buffer is empty, and a flush that follows
\* finds none of the earlier commands to replay.  flush without the Discard
\* bit replays the recorded commands to the device.
C11_DiscardDropsCommands ==
    /\ [](lastDraw.op = "flushDiscard" =>
            /\ lastDraw.flushes = 0 /\ flushStack = <<>>
            /\ bufCmds = <<>>
            /\ devLog = lastDraw.logBefore)
    /\ []((lastDraw.op = "flush" /\ lastDraw.done) =>
            /\ lastDraw.flushes = 1
            /\ devLog = ExecAll(lastDraw.logBefore, lastDraw.pending))
    /\ [][(lastDraw.op = "flushDiscard" /\ lastDraw'.op = "flush") =>
            lastDraw'.pending = <<>>]_vars

\* C11 witness: two recorded commands were discarded and the device log, which
\* holds earlier commands, is as it was.
C11_Witness ==
    /\ lastDraw.op = "flushDiscard" /\ Len(lastDraw.pending) = 2
    /\ devLog # <<>> /\ bufCmds = <<>>

(***************************************************************************)
(* Properties of the pixel operations, checked under SpecPixel.            *)
(***************************************************************************)
\* A step in which a pixel operation returns.
PixelOpReturns == pixelOp' # pixelOp /\ pixelOp'.done /\ pixelOp'.op # "none"

JustCreated == lastCall.op = "createAndLockTexture" /\ lastCall.result # NULL

\* The attached entries with no lock, other than t.
Evictable(t) == {u \in Attached([tex |-> tex, lru |-> lru]) \ {t} : tex[u].locks = 0}

\* C13: after createAndLock the resident bytes are within the byte budget
\* whenever an unlocked entry other than the new one is still there to evict:
\* the cache is over budget only when nothing evictable remains.
C13_BudgetAfterCreate ==
    JustCreated =>
        (Evictable(lastCall.result) # {} =>
            getCachedResourceBytes([tex |-> tex, lru |-> lru]) <= fMaxBytes)

\* C13 witness: a texture was created in the second slot under the small byte
\* budget, and the unlocked texture that held the first slot has been evicted
\* to make room for it.
C13_Witness ==
    /\ JustCreated /\ lastCall.result = 2
    /\ tex[1].state = "None"
    /\ fMaxBytes < MAX_TEXTURE_CACHE_BYTES
    /\ getCachedResourceBytes([tex |-> tex, lru |-> lru]) <= fMaxBytes

\* C14: an entry whose lock count is greater than zero is never evicted,
\* whatever the budget: no step takes a locked texture out of existence.
C14_LockedNeverEvicted ==
    [][\A t \in TexIds :
          (tex[t].state # "None" /\ tex[t].locks > 0) =>
              (tex'[t].state # "None" /\ tex'[t].desc = tex[t].desc)]_vars

\* C14 witness: two locked textures whose sizes together exceed the byte
\* budget are both resident after the second was created.
C14_Witness ==
    /\ JustCreated
    /\ \A t \in TexIds : tex[t].state = "Attached" /\ tex[t].locks > 0
    /\ getCachedResourceBytes([tex |-> tex, lru |-> lru]) > fMaxBytes

(***************************************************************************)
(* Draw-state isolation of the composite calls.                            *)
(***************************************************************************)
CompositeOps ==
    {"drawRect", "drawRectToRect", "drawVertices", "drawOval", "drawPath", "drawPaint",
     "gaussianBlur", "applyMorphology"}

\* The last call is a composite call that returned.
CompositeReturned == lastGfx.op \in CompositeOps /\ lastGfx.ret # "crash"

\* The part of the draw state the scoped guards of the composite calls cover.
Guarded(ds) ==
    [viewMatrix |-> ds.viewMatrix, renderTarget |-> ds.renderTarget, clip |-> ds.clip,
     stage0 |-> ds.stage0]

Carries(ds, paint) ==
    /\ ds.color = paint.fColor
    /\ ds.hwAA = paint.fAntiAlias
    /\ paint.tex => ds.stage0

BlurScratchMissing(e) ==
    \/ Len(BlurPasses(e)) >= 1 /\ ~e.temp1Ok
    \/ Len(BlurPasses(e)) >= 2 /\ ~e.canClobberSrc /\ ~e.temp2Ok

MorphScratchMissing(e) ==
    \/ e.radiusW /\ ~e.ast1Ok
    \/ e.radiusH /\ ~e.ast2Ok

\* The last call needed a scratch texture the device could not create.
ScratchMissing ==
    \/ lastGfx.op = "gaussianBlur" /\ BlurScratchMissing(lastGfx.args.e)
    \/ lastGfx.op = "applyMorphology" /\ MorphScratchMissing(lastGfx.args.e)

\* C17: when gaussianBlur or applyMorphology needs a scratch texture that
\* could not be created, the call never uses the NULL texture, it returns
\* NULL without drawing, and the draw state is what it was before the call.
C17_GracefulAbort ==
    ScratchMissing =>
        /\ ~lastGfx.nullUsed
        /\ lastGfx.ret = NoTexture
        /\ lastGfx.ev = <<>>
        /\ fDrawState = lastGfx.pre

(***************************************************************************)
(* drawOval.                                                               *)
(***************************************************************************)
\* The view matrices of the model that map a circle to a circle.
CircleKeeping == {MatrixI, MatrixRot90}

\* The draw of the fallback of drawOval for a stroke width.
FallbackDraw(strokeWidth) ==
    <<PathDraw(IF strokeWidth = 0 THEN kHairLine_GrPathFill ELSE kWinding_GrPathFill)>>

\* C19 as stated: unless the view matrix is a similarity and the stroke
\* width is zero, drawOval falls back to the path draw.
C19_Original ==
    lastGfx.op = "drawOval" =>
        (~(lastGfx.pre.viewMatrix \in CircleKeeping /\ lastGfx.args.width = 0)
            => lastGfx.ev = FallbackDraw(lastGfx.args.width))

\* C19: drawOval takes the circle fast path exactly when the view matrix is
\* a similarity, the paint is antialiased and the oval is a circle, for a
\* fill as for a hairline; the fast path draws the circle or, without a
\* render target or when the device gives no geometry, nothing.  In every
\* other case it draws the oval through internalDrawPath, as a hairline
\* path when the stroke width is zero and as a filled path otherwise, and
\* issues no fast-path draw.
C19_OvalFastPath ==
    lastGfx.op = "drawOval" =>
        IF /\ lastGfx.pre.viewMatrix \in CircleKeeping
           /\ lastGfx.paint.fAntiAlias
           /\ lastGfx.args.circle
        THEN /\ lastGfx.ev \in {<<"circle">>, <<>>}
             /\ lastGfx.pre.renderTarget = NoTarget => lastGfx.ev = <<>>
        ELSE lastGfx.ev = FallbackDraw(lastGfx.args.width)

\* A filled antialiased circle under a rotation was drawn by the fast path.
C19_Witness ==
    /\ lastGfx.op = "drawOval"
    /\ lastGfx.args.width = -1
    /\ lastGfx.pre.viewMatrix = MatrixRot90
    /\ lastGfx.ev = <<"circle">>

(***************************************************************************)
(* drawRect and antialiasing.                                              *)
(***************************************************************************)
\* The last drawRect issued an antialiased rectangle.
DrewAARect == lastGfx.ev \in {<<"fillAARect">>, <<"strokeAARect">>}

\* (i) the view matrix and the local matrix, if any, preserve axis alignment
AxisAligned ==
    /\ preservesAxisAlignment(lastGfx.pre.viewMatrix)
    /\ lastGfx.args.matrix # NoMatrix => preservesAxisAlignment(lastGfx.args.matrix[1])

\* (ii) the render target is not multisampled
NotMultisampled == ~isMultisampled(lastGfx.pre.renderTarget)

\* (iii) coverage goes through the blend or through the alpha
CoverageAppliable == lastGfx.args.tweakAlpha \/ lastGfx.args.applyCoverage

\* C20 as stated: an antialiased rectangle is drawn only under (i), (ii)
\* and (iii), and when one of them fails the rectangle is still drawn,
\* without antialiasing.
C20_Original ==
    lastGfx.op = "drawRect" =>
        /\ DrewAARect => AxisAligned /\ NotMultisampled /\ CoverageAppliable
        /\ ~(AxisAligned /\ NotMultisampled /\ CoverageAppliable)
               => lastGfx.ev = <<"rect">>
        /\ lastGfx.ret = "void"

\* C20: drawRect draws an antialiased rectangle only for an antialiased
\* paint under (i), (ii) and (iii); when one of them fails it issues the
\* plain rectangle draw instead, or no draw at all when the device gave no
\* vertex space or vertex buffer, and it always returns normally.
C20_AAOnlyWhenAllowed ==
    lastGfx.op = "drawRect" =>
        /\ DrewAARect => /\ lastGfx.paint.fAntiAlias
                         /\ AxisAligned /\ NotMultisampled /\ CoverageAppliable
        /\ ~(AxisAligned /\ NotMultisampled /\ CoverageAppliable)
               => /\ lastGfx.ev \in {<<"rect">>, <<>>}
                  /\ lastGfx.args.geoOk => lastGfx.ev = <<"rect">>
        /\ lastGfx.ret = "void"

\* An antialiased fill with an axis-preserving local matrix under a rotation
\* by a quarter turn was drawn antialiased.
C20_Witness ==
    /\ lastGfx.op = "drawRect"
    /\ lastGfx.pre.viewMatrix = MatrixRot90
    /\ lastGfx.args.matrix = <<MatrixScaleXY>>
    /\ lastGfx.ev = <<"fillAARect">>

(***************************************************************************)
(* Context loss.                                                           *)
(***************************************************************************)
\* The steps of a contextLost that free or discard something.
FreeingSteps ==
    {"dropPathRenderers", "deleteDrawBuffer", "deletePools", "removeAll", "freeAll"}

\* C18: a contextLost step abandons the device resources before it drops
\* the path renderers, deletes the draw buffer and its pools and empties
\* the resource cache and the font cache, and sets up the draw buffer after
\* all of that; after the step the draw buffer is a new one, not NULL and
\* empty, the cache is empty, and the device has received nothing.  No
\* command recorded before the loss reaches the device after it.
C18_LossTearsDownThenRebuilds ==
    /\ [][lastDraw'.op = "contextLost" /\ liveBuf' # liveBuf =>
            /\ lossSteps'[1] = "abandonResources"
            /\ lossSteps'[Len(lossSteps')] = "setupDrawBuffer"
            /\ \A i \in 1..Len(lossSteps') :
                   lossSteps'[i] \in FreeingSteps => 1 < i /\ i < Len(lossSteps')
            /\ FreeingSteps \subseteq {lossSteps'[i] : i \in 1..Len(lossSteps')}
            /\ fDrawBuffer' \notin {NULL, fDrawBuffer}
            /\ bufCmds' = <<>>
            /\ \A t \in TexIds : tex'[t] = NoTex
            /\ lru' = <<>>
            /\ devLog' = devLog]_vars
    /\ [][liveBuf > 1 /\ devLog' # devLog => devLog'[Len(devLog')] = "B"]_vars
    /\ [](liveBuf > 1 => \A i \in 1..Len(bufCmds) : bufCmds[i] = "B")

\* The context was lost with two commands in the draw buffer and a texture
\* in the cache; the texture is gone and the draw buffer is the second one.
C18_Witness ==
    /\ lastDraw.op = "contextLost"
    /\ Len(lastDraw.pending) = 2
    /\ lastCall.op = "createAndLockTexture"
    /\ lastCall.result # NULL
    /\ tex[lastCall.result] = NoTex
    /\ fDrawBuffer = 2
    /\ bufCmds = <<>>

(***************************************************************************)
(* The path renderer lookup.                                               *)
(***************************************************************************)
\* C21: a lookup returns the chain's renderer when one qualifies; when none
\* qualifies and the fallback is allowed it returns the software renderer,
\* the one held before the call if there was one and a newly constructed
\* one otherwise; when none qualifies and the fallback is not allowed it
\* returns NULL; a draw without a renderer issues nothing.  A software
\* renderer is constructed only while none is held, and the one held
\* changes only when a teardown drops it.
C21_RendererLookup ==
    /\ [](pathR.last.op # "none" =>
            /\ pathR.last.qualifies => pathR.last.result = <<ChainRenderer>>
            /\ (~pathR.last.qualifies /\ pathR.last.allowSW) =>
                   /\ pathR.sw # NULL
                   /\ pathR.last.result = Software(pathR.sw)
                   /\ pathR.last.swBefore # NULL => pathR.sw = pathR.last.swBefore
            /\ (~pathR.last.qualifies /\ ~pathR.last.allowSW) =>
                   pathR.last.result = <<>>
            /\ pathR.last.result = <<>> => pathR.last.ev = <<>>
            /\ pathR.last.op = "internalDrawPath" => pathR.last.ev = <<"drawPath">>)
    /\ [][pathR'.made # pathR.made =>
              pathR.sw = NULL /\ pathR'.made = pathR.made + 1 /\ pathR'.sw = pathR'.made]_vars
    /\ [][(pathR.sw # NULL /\ pathR'.sw # pathR.sw) =>
              pathR'.sw = NULL /\ lastDraw'.op = "contextLost"]_vars

\* After a teardown a second software renderer was constructed, and a later
\* lookup without a qualifying renderer got that same one.
C21_Witness ==
    /\ pathR.last.op = "getPathRenderer"
    /\ ~pathR.last.qualifies
    /\ pathR.last.swBefore = 2
    /\ pathR.last.result = Software(2)
    /\ pathR.made = 2

(***************************************************************************)
(* The route of readRenderTargetPixels.                                    *)
(***************************************************************************)
\* The request for unpremultiplied data goes to the CPU conversion.
WantsCpuConversion == lastRead.flags.unpremul /\ ~lastRead.e.canPreserve

\* A y-flip, an R/B swap or an unpremultiply has to be done on the GPU.
WantsGpuConversion ==
    \/ lastRead.e.isTexture /\ lastRead.e.conv
    \/ lastRead.flags.unpremul /\ lastRead.e.canPreserve

\* The call makes no device read: no target, a config the CPU conversion
\* does not know, a GPU unpremultiply of a target that is no texture, or no
\* scratch texture.
ReadsNothing ==
    \/ lastRead.e.noTarget
    \/ WantsCpuConversion /\ ~lastRead.e.cfgOk
    \/ ~WantsCpuConversion /\ lastRead.flags.unpremul /\ ~lastRead.e.isTexture
    \/ WantsGpuConversion /\ ~lastRead.e.scratchOk

\* The environment of the call as the pixel operations read it.
ReadAsPixelEnv ==
    [noTarget |-> lastRead.e.noTarget, canPreserve |-> lastRead.e.canPreserve,
     cfgOk |-> lastRead.e.cfgOk, isTexture |-> lastRead.e.isTexture,
     conv |-> lastRead.e.conv, scratchOk |-> lastRead.e.scratchOk,
     geoOk |-> TRUE, macBuild |-> FALSE]

C30_TrueOnlyAfterRead ==
    (lastRead.op # "none" /\ lastRead.route.ret) => lastRead.route.deviceRead = "ok"

(***************************************************************************)
(* unlockTexture on scratch and on other textures.                         *)
(***************************************************************************)
\* The step is an unlockTexture(t).
IsUnlockOf(t) ==
    lastCall'.op = "unlockTexture" /\ lastCall'.result = t /\ tex' # tex

\* C23: unlockTexture releases a scratch texture by reattaching it to the
\* cache and then unlocking it, so that a lookup of its key finds it again; a
\* texture that is not scratch is only unlocked and stays attached.
C23_UnlockRoutes ==
    [][\A t \in TexIds : IsUnlockOf(t) =>
          IF IsScratchTexture(tex[t].key)
          THEN /\ tex[t].state = "Detached"
               /\ tex' = [tex EXCEPT ![t].state = "Attached", ![t].locks = @ - 1]
               /\ t \in Matches([tex |-> tex', lru |-> lru'], tex[t].key)
          ELSE /\ tex[t].state = "Attached"
               /\ tex' = [tex EXCEPT ![t].locks = @ - 1]
               /\ lru' = lru]_vars

\* A scratch texture has just been released and is attached again, next to
\* a released texture that is not scratch.
C23_Witness ==
    /\ lastCall.op = "unlockTexture"
    /\ IsScratchTexture(tex[lastCall.result].key)
    /\ tex[lastCall.result].state = "Attached"
    /\ tex[lastCall.result].locks = 0
    /\ \E u \in TexIds :
          /\ tex[u].state = "Attached"
          /\ ~IsScratchTexture(tex[u].key)
          /\ tex[u].locks = 0

(***************************************************************************)
(* The draw buffer reference at the calls that use it.                     *)
(***************************************************************************)
\* C24: whenever flush with the Discard flag or prepareToDraw with a buffered
\* request executes, fDrawBuffer is non-null: no member call is made through
\* a NULL fDrawBuffer, during a replay or after contextDestroyed.
C24_BufferPresent == fault.call = "none"

(***************************************************************************)
(* The descriptors lockScratchTexture probes.                              *)
(***************************************************************************)
\* The last call was an Approximate lockScratchTexture.
IsApproxCall ==
    lastCall.op = "lockScratchTexture" /\ lastCall.match = kApprox_ScratchTexMatch

\* The probes of the last call made at the size (w, h), in order.
ProbesAt(w, h) ==
    SelectSeq(lastCall.probes, LAMBDA d : d.fWidth = w /\ d.fHeight = h)

\* The flags of d are the ones the caller passed.
CallerFlags(d) == d.rt = lastCall.inDesc.rt /\ d.ns = lastCall.inDesc.ns

\* C25: the width-doubling step and the height-doubling step reset the flags
\* to the caller's, and the height-doubling step resets the width to its
\* undoubled value: no probe has both width and height doubled, and the
\* render-target and stencil relaxations are gone through again at each
\* doubled size.
C25_ResetAtDoubling ==
    IsApproxCall =>
        LET p == lastCall.probes
            w == p[1].fWidth
            h == p[1].fHeight
        IN /\ \A i \in 1..Len(p) : ~(p[i].fWidth # w /\ p[i].fHeight # h)
           /\ \A i \in 2..Len(p) :
                 /\ p[i].fWidth # p[i - 1].fWidth /\ p[i].fHeight = p[i - 1].fHeight =>
                        p[i].fWidth = 2 * w /\ CallerFlags(p[i])
                 /\ p[i].fHeight # p[i - 1].fHeight =>
                        /\ p[i].fHeight = 2 * h /\ p[i].fWidth = w
                        /\ p[i - 1].fWidth = 2 * w
                        /\ CallerFlags(p[i])
           /\ lastCall.created # <<>> =>
                 \A size \in {<<w, h>>, <<2 * w, h>>, <<w, 2 * h>>} :
                    LET at == ProbesAt(size[1], size[2])
                    IN /\ at # <<>>
                       /\ CallerFlags(at[1])
                       /\ at[Len(at)].rt /\ ~at[Len(at)].ns
                       /\ Len(at) = Len(ProbesAt(w, h))

\* An Approximate search for a texture that is no render target has reached
\* the height-doubling stage: the probe before it had the render-target flag
\* added and the width doubled.
C25_Witness ==
    /\ IsApproxCall
    /\ ~lastCall.inDesc.rt
    /\ \E i \in 2..Len(lastCall.probes) :
          /\ lastCall.probes[i].fHeight = 2 * lastCall.probes[1].fHeight
          /\ lastCall.probes[i - 1].fWidth = 2 * lastCall.probes[1].fWidth
          /\ lastCall.probes[i - 1].rt
          /\ ~lastCall.probes[i].rt

\* C26: the relaxation loop terminates, after at most 9 cache lookups in
\* Approximate mode, with a hit or with the device allocation.
C26_AtMostNineLookups ==
    lastCall.op = "lockScratchTexture" =>
        /\ Len(lastCall.probes) >= 1
        /\ Len(lastCall.probes) <= 9
        /\ lastCall.created = <<>> => lastCall.result # NULL
        /\ Len(lastCall.created) <= 1

\* An Approximate search has made nine lookups, missed all and gone to the device.
C26_Witness ==
    /\ IsApproxCall
    /\ Len(lastCall.probes) = 9
    /\ lastCall.created # <<>>

\* d is at least as capable as the request: not smaller, a render target if
\* one was asked for, and with the no-stencil restriction only if it was asked for.
AsCapable(d) ==
    /\ d.fWidth >= lastCall.inDesc.fWidth
    /\ d.fHeight >= lastCall.inDesc.fHeight
    /\ lastCall.inDesc.rt => d.rt
    /\ d.ns => lastCall.inDesc.ns

\* C27: every descriptor lockScratchTexture probes or hands to the device is
\* at least as capable as the request; relaxation only adds the render-target
\* flag or removes the no-stencil flag.
C27_ProbesAsCapable ==
    lastCall.op = "lockScratchTexture" =>
        /\ \A i \in 1..Len(lastCall.probes) : AsCapable(lastCall.probes[i])
        /\ \A i \in 1..Len(lastCall.created) :
              /\ AsCapable(lastCall.created[i])
              /\ CallerFlags(lastCall.created[i])

\* A search for a render target has gone through the doubled sizes and
\* allocated: the flags were reset on the way.
C27_Witness ==
    /\ IsApproxCall
    /\ lastCall.inDesc.rt /\ lastCall.inDesc.ns
    /\ lastCall.created # <<>>
    /\ Len(lastCall.probes) = 6

(***************************************************************************)
(* The stages at the entry of setPaint.                                    *)
(***************************************************************************)
\* C28: at every setPaint call reached through the context's public
\* operations, getTextTarget among them, all stages of the draw state are
\* disabled.
C28_StagesDisabledAtSetPaint ==
    lastGfx.op # "none" => stagesDisabled(lastGfx.pre)

(***************************************************************************)
(* The vertex edge type across drawOval.                                   *)
(***************************************************************************)
\* C29: the vertex edge type after drawOval returns is the one before the
\* call; the circle edge type of the fast path does not leak.
C29_EdgeTypeRestored ==
    (lastGfx.op = "drawOval" /\ lastGfx.ret # "crash") =>
        fDrawState.edgeType = lastGfx.pre.edgeType

(***************************************************************************)
(* The texture createResizedTexture returns after the CPU stretch.         *)
(***************************************************************************)
\* C31: when createResizedTexture falls back to the CPU stretch and the device
\* creates the texture from the stretched pixels, that texture is returned,
\* and createAndLockTexture registers it in the cache and returns it.
C31_StretchedReturned ==
    (lastResize.route = "cpu" /\ lastResize.stretched # NULL) =>
        /\ lastResize.ret = lastResize.stretched
        /\ lastCall.result = lastResize.stretched
        /\ tex[lastResize.stretched].state = "Attached"
        /\ tex[lastResize.stretched].key = ResizedKey(lastResize.desc)

(***************************************************************************)
(* The passes of the blur and of the morphology.                           *)
(***************************************************************************)
PassIndices(ev) == {i \in 1..Len(ev) : ev[i].kind # "clear"}

ClearIndices(ev) == {i \in 1..Len(ev) : ev[i].kind = "clear"}

\* The first pass after event i, 0 when none follows.
NextPassAfter(ev, i) ==
    IF \E j \in PassIndices(ev) : j > i
    THEN CHOOSE j \in PassIndices(ev) : j > i /\ \A k \in PassIndices(ev) : k > i => j <= k
    ELSE 0

LastPass(ev) == CHOOSE j \in PassIndices(ev) : \A k \in PassIndices(ev) : k <= j

\* C32: every pass of gaussianBlur samples a texture other than the one it
\* renders into, whatever canClobberSrc is and however many passes run; the
\* texture returned is the one the last pass rendered into, and the source
\* when no pass ran.
C32_SourceNotTarget ==
    lastBlur.op = "gaussianBlur" =>
        /\ \A i \in PassIndices(lastBlur.ev) : lastBlur.ev[i].src # lastBlur.ev[i].rt
        /\ lastBlur.ret = IF PassIndices(lastBlur.ev) = {} THEN "src"
                          ELSE lastBlur.ev[LastPass(lastBlur.ev)].rt

\* A blur that may clobber its source, ran four passes or more and rendered
\* into the source in one of them.
C32_Witness ==
    /\ lastBlur.op = "gaussianBlur"
    /\ lastBlur.e.canClobberSrc
    /\ Cardinality(PassIndices(lastBlur.ev)) >= 4
    /\ \E i \in PassIndices(lastBlur.ev) : lastBlur.ev[i].rt = "src"
    /\ lastBlur.ret # "src"

\* The clear at i comes before a pass, and that pass samples the render
\* target the clear worked on.
ClearFeedsNextPass(ev, i) ==
    /\ NextPassAfter(ev, i) # 0
    /\ ev[NextPassAfter(ev, i)].src = ev[i].rt

\* C33 as stated: every clear of gaussianBlur and of applyMorphology comes
\* before a pass, and the render target at the clear is the texture that
\* pass samples.
C33_Original ==
    lastBlur.op # "none" =>
        \A i \in ClearIndices(lastBlur.ev) : ClearFeedsNextPass(lastBlur.ev, i)

\* C33: every clear of a rectangle that is not empty comes before a pass,
\* and the render target at the clear is the texture that pass samples.
C33_ClearBeforePass ==
    lastBlur.op # "none" =>
        \A i \in ClearIndices(lastBlur.ev) :
            ~lastBlur.ev[i].empty => ClearFeedsNextPass(lastBlur.ev, i)

\* A blur with the clears of all three places, and a morphology with both passes.
C33_Witness ==
    \/ /\ lastBlur.op = "gaussianBlur"
       /\ Cardinality(ClearIndices(lastBlur.ev)) = 4
    \/ /\ lastBlur.op = "applyMorphology"
       /\ lastBlur.e.radiusW /\ lastBlur.e.radiusH
       /\ ClearIndices(lastBlur.ev) # {}

(***************************************************************************)
(* Draws that go to the device directly.                                   *)
(***************************************************************************)
\* C34: when createResizedTexture draws the stretched copy on the device, no
\* command recorded in the draw buffer is still waiting to be played back.
C34_FlushedBeforeResizeDraw ==
    lastResize.drew => lastResize.pending = <<>>

(***************************************************************************)
(* The nesting of the pixel operations.                                    *)
(***************************************************************************)
\* C35: a readRenderTargetPixels or writeRenderTargetPixels call of the client
\* calls itself at most once, only when the unpremul flag is set, and the
\* inner call has the flag cleared; a readRenderTargetPixels call flushes at
\* most once.
C35_ReentersAtMostOnce ==
    pixelNest.op \in {"readRenderTargetPixels", "writeRenderTargetPixels"} =>
        /\ pixelNest.depth <= 1
        /\ pixelNest.depth = 1 => (pixelNest.flags.unpremul /\ ~pixelNest.inner.unpremul)
        /\ pixelNest.op = "readRenderTargetPixels" => Flushes(pixelNest.ev) <= 1

\* A read that nested once and flushed once.
C35_Witness ==
    /\ pixelNest.op = "readRenderTargetPixels"
    /\ pixelNest.depth = 1
    /\ Flushes(pixelNest.ev) = 1
    /\ pixelNest.ret = "true"

\* C38: writeTexturePixels with the unpremul flag does nothing, neither a flush
\* nor a call on the device; readTexturePixels of a texture that is no render
\* target returns false and does nothing either.
C38_NothingDone ==
    /\ (pixelNest.op = "writeTexturePixels" /\ pixelNest.flags.unpremul) =>
           (pixelNest.ev = <<>> /\ pixelNest.ret = "void")
    /\ (pixelNest.op = "readTexturePixels" /\ pixelNest.e.noTarget) =>
           (pixelNest.ev = <<>> /\ pixelNest.ret = "false")

\* One of the two calls, made without the don't-flush flag.
C38_Witness ==
    /\ ~pixelNest.flags.dontFlush
    /\ \/ pixelNest.op = "writeTexturePixels" /\ pixelNest.flags.unpremul
       \/ pixelNest.op = "readTexturePixels" /\ pixelNest.e.noTarget
    /\ pixelNest.ev = <<>>

(***************************************************************************)
(* Scratch textures and the client's own textures side by side.            *)
(***************************************************************************)
\* An unlocked texture in the cache, other than t, with the descriptor of t
\* and the other kind of key.
TwinOf(t) ==
    {u \in Attached([tex |-> tex, lru |-> lru]) \ {t} :
        /\ tex[u].desc = tex[t].desc
        /\ tex[u].locks = 0
        /\ tex[u].key.scratch # tex[t].key.scratch}

\* C36: the texture lockScratchTexture returns has a scratch key and is none
\* that createAndLockTexture registered; the texture findAndLockTexture
\* returns has the key of its descriptor with the discriminator false, and
\* so does the one createAndLockTexture returns.
C36_NoAlias ==
    lastCall.result # NULL =>
        /\ lastCall.op = "lockScratchTexture" =>
               IsScratchTexture(tex[lastCall.result].key)
        /\ lastCall.op \in {"findAndLockTexture", "createAndLockTexture"} =>
               /\ ~IsScratchTexture(tex[lastCall.result].key)
               /\ tex[lastCall.result].key = ComputeKey(lastCall.inDesc, FALSE)

\* A scratch texture was returned, or a texture was found, while an unlocked
\* texture of the other kind with the same descriptor was in the cache.
C36_Witness ==
    /\ lastCall.result # NULL
    /\ lastCall.op \in {"lockScratchTexture", "findAndLockTexture"}
    /\ lastCall.created = <<>>
    /\ TwinOf(lastCall.result) # {}

StepIndex(steps, step) == CHOOSE i \in 1..Len(steps) : steps[i] = step

\* C39: freeGpuResources and the destructor replay the recorded commands
\* before the device purges its resources and before the cache is emptied:
\* no command is waiting at either step and the device has executed them
\* all.  contextDestroyed abandons the device resources as its first step
\* and replays nothing: the device log is as it was and the commands are gone.
C39_ReplayBeforeRelease ==
    /\ lastTeardown.op \in {"freeGpuResources", "destructor"} =>
           /\ lastTeardown.steps[1] = "flush"
           /\ lastTeardown.atDevice = <<>>
           /\ lastTeardown.atCache = <<>>
           /\ lastDraw.op = lastTeardown.op =>
                  /\ devLog = ExecAll(lastTeardown.logBefore, lastTeardown.pending)
                  /\ bufCmds = <<>>
    /\ lastDraw.op = "contextDestroyed" =>
           /\ lossSteps[1] = "abandonResources"
           /\ \A i \in 1..Len(lossSteps) : lossSteps[i] # "flush"
           /\ StepIndex(lossSteps, "abandonResources") < StepIndex(lossSteps, "removeAll")
           /\ devLog = lastDraw.logBefore
           /\ bufCmds = <<>>

\* Resources were freed, or the context deleted, with two commands recorded
\* and a texture in the cache.
C39_Witness ==
    /\ lastTeardown.op \in {"freeGpuResources", "destructor"}
    /\ lastDraw.op = lastTeardown.op
    /\ Len(lastTeardown.pending) = 2
    /\ lastTeardown.entries > 0

\* contextDestroyed was called with two commands recorded.
DestroyedWithPending ==
    /\ lastDraw.op = "contextDestroyed"
    /\ Len(lastDraw.pending) = 2

====
